---- MODULE Spec2Model ----
(***************************************************************************)
(* RBAC payment system: the request pipeline (authenticate, permission     *)
(* gate, validator, controller) over the persisted users, roles and        *)
(* payments.  A request occupies a slot; every step of a request is one    *)
(* database operation together with the synchronous code that follows it,  *)
(* so requests in different slots interleave exactly where the handlers    *)
(* await the database.                                                     *)
(***************************************************************************)
EXTENDS Integers, FiniteSets, Sequences, TLC

\* ------------------------------------------------------------------ bounds
MaxPayments == 2
MaxReq == 2
MaxNewRoles == 1
MaxNewUsers == 1
MaxClock == 2

\* --------------------------------------------------------------- constants
Null == "null"
NoDate == -1

PERMISSIONS ==
  [ USERS_READ       |-> "users:read",
    USERS_WRITE      |-> "users:write",
    USERS_DELETE     |-> "users:delete",
    PAYMENTS_CREATE  |-> "payments:create",
    PAYMENTS_READ    |-> "payments:read",
    PAYMENTS_APPROVE |-> "payments:approve",
    PAYMENTS_PROCESS |-> "payments:process",
    PAYMENTS_DELETE  |-> "payments:delete",
    ROLES_MANAGE     |-> "roles:manage" ]

AllPermissions == { PERMISSIONS[k] : k \in DOMAIN PERMISSIONS }

ROLE_PERMISSIONS ==
  [ admin   |-> { "users:read", "users:write", "users:delete",
                  "payments:create", "payments:read", "payments:approve",
                  "payments:process", "payments:delete", "roles:manage" },
    manager |-> { "users:read", "payments:create", "payments:read",
                  "payments:approve", "payments:process", "payments:delete" },
    user    |-> { "payments:create", "payments:read" } ]

PAYMENT_STATUS ==
  [ PENDING    |-> "pending",
    APPROVED   |-> "approved",
    REJECTED   |-> "rejected",
    PROCESSING |-> "processing",
    COMPLETED  |-> "completed",
    FAILED     |-> "failed" ]

StatusValues == { PAYMENT_STATUS[k] : k \in DOMAIN PAYMENT_STATUS }

HTTP_STATUS ==
  [ OK |-> 200, CREATED |-> 201, BAD_REQUEST |-> 400, UNAUTHORIZED |-> 401,
    FORBIDDEN |-> 403, NOT_FOUND |-> 404, CONFLICT |-> 409,
    INTERNAL_SERVER_ERROR |-> 500 ]

\* amounts are in cents: isFloat({ min: 0.01 })
MinAmount == 1

DefaultRejectReason == "Rejected by approver"
GatewayFailureReason == "Payment gateway error: Insufficient funds or card declined"

\* ------------------------------------------------------------------- state
VARIABLES
  users,      \* User collection: _id -> document
  roles,      \* Role collection: _id -> document
  payments,   \* Payment collection: _id -> document
  nextPid,    \* next fresh Payment _id
  nextRid,    \* number of the next Role created through the API
  nextUid,    \* number of the next User created by registration
  refreshTokens, \* the RefreshToken collection
  loggedOut,  \* history: the refresh tokens a completed logout was called with
  issuedTokens, \* the refresh tokens clients have received
  JWT_REFRESH_EXPIRES_IN, \* process.env.JWT_REFRESH_EXPIRES_IN
  now,        \* the clock read by new Date() / Date.now()
  reqs        \* request slots: the req/res pair and the handler's position

vars == << users, roles, payments, nextPid, nextRid, now, refreshTokens, nextUid, loggedOut, issuedTokens, JWT_REFRESH_EXPIRES_IN, reqs >>

PaymentIds == 1..MaxPayments
Slots == 1..MaxReq

\* seedRoles / seedUsers
SeedRoles ==
  [ rid \in {"r_admin", "r_manager", "r_user"} |->
      CASE rid = "r_admin"   -> [ name |-> "admin",   permissions |-> ROLE_PERMISSIONS.admin ]
        [] rid = "r_manager" -> [ name |-> "manager", permissions |-> ROLE_PERMISSIONS.manager ]
        [] rid = "r_user"    -> [ name |-> "user",    permissions |-> ROLE_PERMISSIONS.user ] ]

SeedUsers ==
  [ uid \in {"admin", "manager", "user1", "user2"} |->
      CASE uid = "admin"   -> [ email |-> "admin@example.com",    password |-> "Admin@123", role |-> "r_admin",   isActive |-> TRUE, lastLogin |-> NoDate ]
        [] uid = "manager" -> [ email |-> "manager@example.com",  password |-> "Manager@123", role |-> "r_manager", isActive |-> TRUE, lastLogin |-> NoDate ]
        [] uid = "user1"   -> [ email |-> "user@example.com",     password |-> "User@123", role |-> "r_user",    isActive |-> TRUE, lastLogin |-> NoDate ]
        [] uid = "user2"   -> [ email |-> "john.doe@example.com", password |-> "User@123", role |-> "r_user",    isActive |-> TRUE, lastLogin |-> NoDate ] ]

UserIds == DOMAIN SeedUsers
RoleIds == DOMAIN SeedRoles

\* ---------------------------------------------------------------- requests
NoPayment ==
  [ user |-> Null, amount |-> 0, currency |-> Null, description |-> Null, paymentMethod |-> Null,
    status |-> "none", approvedBy |-> Null, approvedAt |-> NoDate,
    processedBy |-> Null, processedAt |-> NoDate, completedAt |-> NoDate,
    failureReason |-> Null, transactionId |-> << >> ]

NoBody ==
  [ amount |-> 0, currency |-> Null, description |-> Null, paymentMethod |-> Null, reason |-> Null,
    userId |-> Null, status |-> Null, name |-> Null, permissions |-> {},
    roleId |-> Null, email |-> Null, isActive |-> FALSE, fields |-> {},
    password |-> Null, refreshToken |-> [ kind |-> "none", sub |-> Null, iat |-> NoDate ] ]

NoRes == [ code |-> 0, message |-> "", errors |-> << >>, data |-> << >> ]

IdleReq ==
  [ op |-> "none", authorization |-> NoBody.refreshToken, user |-> Null,
    permissions |-> {}, id |-> 0, body |-> NoBody,
    pc |-> "idle", doc |-> NoPayment, res |-> NoRes ]

\* successResponse / errorResponse
successResponse(data, message, statusCode) ==
  [ code |-> statusCode, message |-> message, errors |-> << >>, data |-> data ]

errorResponse(message, statusCode, errors) ==
  [ code |-> statusCode, message |-> message, errors |-> errors, data |-> << >> ]

Free(r) == reqs[r].pc \in {"idle", "done"}

Respond(r, res) ==
  reqs' = [ reqs EXCEPT ![r].pc = "done", ![r].res = res, ![r].doc = NoPayment,
                        ![r].body = NoBody ]

\* ------------------------------------------------------------ authenticate
\* An Authorization header: none, or a bearer token.  verifyToken(token,
\* 'access') accepts a token signed with the access secret that has not expired.
AccessToken(uid) == [ kind |-> "access", sub |-> uid, expired |-> FALSE ]

\* User.findById(decoded.id).populate('role'): the permissions of the role the
\* user references now; a dangling reference populates to null.
PermissionsOf(uid) ==
  IF users[uid].role \in DOMAIN roles THEN roles[users[uid].role].permissions ELSE {}

\* mutant of authenticate: a token signed with the refresh secret verifies too
authenticate_AnySecret(tok) ==
  IF tok.kind = "none"
    THEN [ ok |-> FALSE, res |-> errorResponse("Access token is required", HTTP_STATUS.UNAUTHORIZED, << >>) ]
  ELSE IF tok.kind \notin { "access", "refresh" }
    THEN [ ok |-> FALSE, res |-> errorResponse("Invalid token", HTTP_STATUS.UNAUTHORIZED, << >>) ]
  ELSE IF tok.kind = "access" /\ tok.expired
    THEN [ ok |-> FALSE, res |-> errorResponse("Token expired", HTTP_STATUS.UNAUTHORIZED, << >>) ]
  ELSE IF tok.sub \notin DOMAIN users
    THEN [ ok |-> FALSE, res |-> errorResponse("User not found", HTTP_STATUS.UNAUTHORIZED, << >>) ]
  ELSE IF ~users[tok.sub].isActive
    THEN [ ok |-> FALSE, res |-> errorResponse("Account is inactive", HTTP_STATUS.FORBIDDEN, << >>) ]
  ELSE [ ok |-> TRUE, res |-> NoRes ]

\* mutant of authenticate: an expired token is reported like an invalid one
authenticate_ExpiredAsInvalid(tok) ==
  IF tok.kind = "none"
    THEN [ ok |-> FALSE, res |-> errorResponse("Access token is required", HTTP_STATUS.UNAUTHORIZED, << >>) ]
  ELSE IF tok.kind # "access" \/ tok.expired
    THEN [ ok |-> FALSE, res |-> errorResponse("Invalid token", HTTP_STATUS.UNAUTHORIZED, << >>) ]
  ELSE IF tok.sub \notin DOMAIN users
    THEN [ ok |-> FALSE, res |-> errorResponse("User not found", HTTP_STATUS.UNAUTHORIZED, << >>) ]
  ELSE IF ~users[tok.sub].isActive
    THEN [ ok |-> FALSE, res |-> errorResponse("Account is inactive", HTTP_STATUS.FORBIDDEN, << >>) ]
  ELSE [ ok |-> TRUE, res |-> NoRes ]

\* mutant of authenticate: the account's isActive flag is not looked at
authenticate_InactiveAllowed(tok) ==
  IF tok.kind = "none"
    THEN [ ok |-> FALSE, res |-> errorResponse("Access token is required", HTTP_STATUS.UNAUTHORIZED, << >>) ]
  ELSE IF tok.kind # "access"
    THEN [ ok |-> FALSE, res |-> errorResponse("Invalid token", HTTP_STATUS.UNAUTHORIZED, << >>) ]
  ELSE IF tok.expired
    THEN [ ok |-> FALSE, res |-> errorResponse("Token expired", HTTP_STATUS.UNAUTHORIZED, << >>) ]
  ELSE IF tok.sub \notin DOMAIN users
    THEN [ ok |-> FALSE, res |-> errorResponse("User not found", HTTP_STATUS.UNAUTHORIZED, << >>) ]
  ELSE [ ok |-> TRUE, res |-> NoRes ]

authenticate(tok) ==
  IF tok.kind = "none"
    THEN [ ok |-> FALSE, res |-> errorResponse("Access token is required", HTTP_STATUS.UNAUTHORIZED, << >>) ]
  ELSE IF tok.kind # "access"
    THEN [ ok |-> FALSE, res |-> errorResponse("Invalid token", HTTP_STATUS.UNAUTHORIZED, << >>) ]
  ELSE IF tok.expired
    THEN [ ok |-> FALSE, res |-> errorResponse("Token expired", HTTP_STATUS.UNAUTHORIZED, << >>) ]
  ELSE IF tok.sub \notin DOMAIN users
    THEN [ ok |-> FALSE, res |-> errorResponse("User not found", HTTP_STATUS.UNAUTHORIZED, << >>) ]
  ELSE IF ~users[tok.sub].isActive
    THEN [ ok |-> FALSE, res |-> errorResponse("Account is inactive", HTTP_STATUS.FORBIDDEN, << >>) ]
  ELSE [ ok |-> TRUE, res |-> NoRes ]

\* ------------------------------------------------------------------- rbac
\* requiredPermissions.some(permission => userPermissions.includes(permission))
\* mutant of hasPermission: every required permission must be held
hasPermission_Every(userPermissions, requiredPermissions) ==
  \A permission \in requiredPermissions : permission \in userPermissions

hasPermission(userPermissions, requiredPermissions) ==
  \E permission \in requiredPermissions : permission \in userPermissions

\* mutant of requirePermissions: every authenticated caller is let through
requirePermissions_AllowAll(userPermissions, requiredPermissions) ==
  [ ok |-> TRUE, res |-> NoRes ]

\* mutant of requirePermissions: the refusal carries no details
requirePermissions_NoDetails(userPermissions, requiredPermissions) ==
  IF hasPermission(userPermissions, requiredPermissions)
    THEN [ ok |-> TRUE, res |-> NoRes ]
    ELSE [ ok |-> FALSE,
           res |-> errorResponse("You do not have permission to perform this action",
                                 HTTP_STATUS.FORBIDDEN, << >>) ]

requirePermissions(userPermissions, requiredPermissions) ==
  IF hasPermission(userPermissions, requiredPermissions)
    THEN [ ok |-> TRUE, res |-> NoRes ]
    ELSE [ ok |-> FALSE,
           res |-> errorResponse("You do not have permission to perform this action",
                                 HTTP_STATUS.FORBIDDEN,
                                 << [ required |-> requiredPermissions,
                                      userPermissions |-> userPermissions ] >>) ]

\* requireAllPermissions: requiredPermissions.every(...); the refusal lists the
\* permissions that are missing
\* mutant of requireAllPermissions: the answer lists every required permission
requireAllPermissions_ListsRequired(userPermissions, requiredPermissions) ==
  IF requiredPermissions \subseteq userPermissions
    THEN [ ok |-> TRUE, res |-> NoRes ]
    ELSE [ ok |-> FALSE,
           res |-> errorResponse("You do not have permission to perform this action",
                                 HTTP_STATUS.FORBIDDEN,
                                 << [ missing |-> requiredPermissions,
                                      userPermissions |-> userPermissions ] >>) ]

requireAllPermissions(userPermissions, requiredPermissions) ==
  IF requiredPermissions \subseteq userPermissions
    THEN [ ok |-> TRUE, res |-> NoRes ]
    ELSE [ ok |-> FALSE,
           res |-> errorResponse("You do not have permission to perform this action",
                                 HTTP_STATUS.FORBIDDEN,
                                 << [ missing |-> requiredPermissions \ userPermissions,
                                      userPermissions |-> userPermissions ] >>) ]

\* requireOwnershipOrPermission, for a loaded resource owned by resourceUserId
requireOwnershipOrPermission(resourceUserId, currentUserId, userPermissions, permission) ==
  IF resourceUserId = currentUserId \/ permission \in userPermissions
    THEN [ ok |-> TRUE, res |-> NoRes ]
    ELSE [ ok |-> FALSE,
           res |-> errorResponse("You do not have permission to access this resource",
                                 HTTP_STATUS.FORBIDDEN, << >>) ]

\* ---------------------------------------------------------------- pipeline
\* router.<verb>(path, authenticate, requirePermissions(...), validator,
\* controller): authenticate reads the user and the role, the gate and the
\* validator run synchronously on its result, and the controller is entered
\* (pc = "ctrl") when all three let the request through.
Admit(r, op, tok, id, body, requiredPermissions, valid) ==
  LET a == authenticate(tok)
      userPermissions == IF a.ok THEN PermissionsOf(tok.sub) ELSE {}
      g == requirePermissions(userPermissions, requiredPermissions)
      base == [ IdleReq EXCEPT !.op = op, !.authorization = tok, !.id = id, !.body = body,
                               !.user = IF a.ok THEN tok.sub ELSE Null,
                               !.permissions = userPermissions ]
  IN  reqs' = [ reqs EXCEPT ![r] =
        IF ~a.ok THEN [ base EXCEPT !.pc = "done", !.body = NoBody, !.res = a.res ]
        ELSE IF ~g.ok THEN [ base EXCEPT !.pc = "done", !.body = NoBody, !.res = g.res ]
        ELSE IF ~valid
          THEN [ base EXCEPT !.pc = "done", !.body = NoBody,
                   !.res = errorResponse("Validation failed", HTTP_STATUS.BAD_REQUEST, << >>) ]
        ELSE [ base EXCEPT !.pc = "ctrl" ] ]

\* router.<verb>(path, authenticate, validator, controller): a route with no
\* permission gate
AdmitOpen(r, op, tok, id, body, valid) ==
  LET a == authenticate(tok)
      base == [ IdleReq EXCEPT !.op = op, !.authorization = tok, !.id = id, !.body = body,
                               !.user = IF a.ok THEN tok.sub ELSE Null,
                               !.permissions = IF a.ok THEN PermissionsOf(tok.sub) ELSE {} ]
  IN  reqs' = [ reqs EXCEPT ![r] =
        IF ~a.ok THEN [ base EXCEPT !.pc = "done", !.body = NoBody, !.res = a.res ]
        ELSE IF ~valid
          THEN [ base EXCEPT !.pc = "done", !.body = NoBody,
                   !.res = errorResponse("Validation failed", HTTP_STATUS.BAD_REQUEST, << >>) ]
        ELSE [ base EXCEPT !.pc = "ctrl" ] ]

\* validateCreatePayment: body('amount').isFloat({ min: 0.01 })
validateCreatePayment(body) == body.amount >= MinAmount

\* creations admitted but not yet saved
PendingCreates == Cardinality({ s \in Slots : reqs[s].op = "createPayment" /\ reqs[s].pc = "ctrl" })

PostPayments(r, tok, body) ==
  /\ Free(r)
  /\ nextPid + PendingCreates <= MaxPayments
  /\ Admit(r, "createPayment", tok, 0, body, { PERMISSIONS.PAYMENTS_CREATE },
           validateCreatePayment(body))
  /\ UNCHANGED << users, roles, payments, nextPid, nextRid, now, refreshTokens, nextUid, loggedOut, issuedTokens, JWT_REFRESH_EXPIRES_IN >>

GetPayments(r, tok, query) ==
  /\ Free(r)
  /\ Admit(r, "getAllPayments", tok, 0, query, { PERMISSIONS.PAYMENTS_READ }, TRUE)
  /\ UNCHANGED << users, roles, payments, nextPid, nextRid, now, refreshTokens, nextUid, loggedOut, issuedTokens, JWT_REFRESH_EXPIRES_IN >>

GetPaymentsId(r, tok, id) ==
  /\ Free(r)
  /\ Admit(r, "getPaymentById", tok, id, NoBody, { PERMISSIONS.PAYMENTS_READ }, TRUE)
  /\ UNCHANGED << users, roles, payments, nextPid, nextRid, now, refreshTokens, nextUid, loggedOut, issuedTokens, JWT_REFRESH_EXPIRES_IN >>

PutPaymentsIdApprove(r, tok, id) ==
  /\ Free(r)
  /\ Admit(r, "approvePayment", tok, id, NoBody, { PERMISSIONS.PAYMENTS_APPROVE }, TRUE)
  /\ UNCHANGED << users, roles, payments, nextPid, nextRid, now, refreshTokens, nextUid, loggedOut, issuedTokens, JWT_REFRESH_EXPIRES_IN >>

PutPaymentsIdReject(r, tok, id, body) ==
  /\ Free(r)
  /\ Admit(r, "rejectPayment", tok, id, body, { PERMISSIONS.PAYMENTS_APPROVE }, TRUE)
  /\ UNCHANGED << users, roles, payments, nextPid, nextRid, now, refreshTokens, nextUid, loggedOut, issuedTokens, JWT_REFRESH_EXPIRES_IN >>

PutPaymentsIdProcess(r, tok, id) ==
  /\ Free(r)
  /\ Admit(r, "processPayment", tok, id, NoBody, { PERMISSIONS.PAYMENTS_PROCESS }, TRUE)
  /\ UNCHANGED << users, roles, payments, nextPid, nextRid, now, refreshTokens, nextUid, loggedOut, issuedTokens, JWT_REFRESH_EXPIRES_IN >>

DeletePaymentsId(r, tok, id) ==
  /\ Free(r)
  /\ Admit(r, "deletePayment", tok, id, NoBody, { PERMISSIONS.PAYMENTS_DELETE }, TRUE)
  /\ UNCHANGED << users, roles, payments, nextPid, nextRid, now, refreshTokens, nextUid, loggedOut, issuedTokens, JWT_REFRESH_EXPIRES_IN >>

\* ------------------------------------------------------- paymentController
At(r, op, pc) == reqs[r].op = op /\ reqs[r].pc = pc

\* errorHandler for an error the controller passes to next(error)
DuplicateKey(field) ==
  errorResponse(field \o " already exists", HTTP_STATUS.CONFLICT, << >>)
ServerError ==
  errorResponse("An unexpected error occurred", HTTP_STATUS.INTERNAL_SERVER_ERROR, << >>)
NotFound(what) == errorResponse(what \o " not found", HTTP_STATUS.NOT_FOUND, << >>)

\* document.save() of a loaded document: $set of the modified paths on the
\* stored document with that _id, whatever it holds now
\* mutant of SavePaths: the update has no _id filter and writes every document
SavePaths_UpdateMany(id, doc, paths) ==
  [ p \in DOMAIN payments |-> [ f \in DOMAIN payments[p] |->
                                 IF f \in paths THEN doc[f] ELSE payments[p][f] ] ]

SavePaths(id, doc, paths) ==
  [ payments EXCEPT ![id] = [ f \in DOMAIN payments[id] |->
                               IF f \in paths THEN doc[f] ELSE payments[id][f] ] ]

Upper(s) == CASE s = "eur" -> "EUR" [] s = "usd" -> "USD" [] OTHER -> s

\* description: { type: String, trim: true }
Trim(s) == CASE s = " Invoice 1001 " -> "Invoice 1001" [] OTHER -> s


\* mutant of createPayment: owner and status are taken from the body when it carries them
createPayment_FromBody(r, rnd) ==
  /\ At(r, "createPayment", "ctrl")
  /\ LET body == reqs[r].body
         payment == [ NoPayment EXCEPT
                        !.user = IF body.userId # Null THEN body.userId ELSE reqs[r].user,
                        !.amount = body.amount,
                        !.currency = Upper(IF body.currency # Null THEN body.currency ELSE "USD"),
                        !.description = Trim(body.description),
                        !.paymentMethod = IF body.paymentMethod # Null THEN body.paymentMethod ELSE "card",
                        !.status = IF body.status # Null THEN body.status ELSE PAYMENT_STATUS.PENDING,
                        !.transactionId = << now, rnd >> ]
     IN IF \E p \in DOMAIN payments : payments[p].transactionId = payment.transactionId
          THEN /\ Respond(r, DuplicateKey("transactionId"))
               /\ UNCHANGED << payments, nextPid >>
          ELSE /\ payments' = [ p \in DOMAIN payments \cup {nextPid} |->
                                  IF p = nextPid THEN payment ELSE payments[p] ]
               /\ nextPid' = nextPid + 1
               /\ Respond(r, successResponse([ id |-> nextPid, payment |-> payment ],
                                            "Payment created successfully", HTTP_STATUS.CREATED))
  /\ UNCHANGED << users, roles, nextRid, now, refreshTokens, nextUid, loggedOut, issuedTokens, JWT_REFRESH_EXPIRES_IN >>

\* mutant of createPayment: the collection has no unique index on transactionId
createPayment_NoUniqueIndex(r, rnd) ==
  /\ At(r, "createPayment", "ctrl")
  /\ LET body == reqs[r].body
         payment == [ NoPayment EXCEPT
                        !.user = reqs[r].user,
                        !.amount = body.amount,
                        !.currency = Upper(IF body.currency # Null THEN body.currency ELSE "USD"),
                        !.description = Trim(body.description),
                        !.paymentMethod = IF body.paymentMethod # Null THEN body.paymentMethod ELSE "card",
                        !.status = PAYMENT_STATUS.PENDING,
                        !.transactionId = << now, rnd >> ]
     IN IF FALSE
          THEN /\ Respond(r, DuplicateKey("transactionId"))
               /\ UNCHANGED << payments, nextPid >>
          ELSE /\ payments' = [ p \in DOMAIN payments \cup {nextPid} |->
                                  IF p = nextPid THEN payment ELSE payments[p] ]
               /\ nextPid' = nextPid + 1
               /\ Respond(r, successResponse([ id |-> nextPid, payment |-> payment ],
                                            "Payment created successfully", HTTP_STATUS.CREATED))
  /\ UNCHANGED << users, roles, nextRid, now, refreshTokens, nextUid, loggedOut, issuedTokens, JWT_REFRESH_EXPIRES_IN >>

createPayment(r, rnd) ==
  /\ At(r, "createPayment", "ctrl")
  /\ LET body == reqs[r].body
         payment == [ NoPayment EXCEPT
                        !.user = reqs[r].user,
                        !.amount = body.amount,
                        !.currency = Upper(IF body.currency # Null THEN body.currency ELSE "USD"),
                        !.description = Trim(body.description),
                        !.paymentMethod = IF body.paymentMethod # Null THEN body.paymentMethod ELSE "card",
                        !.status = PAYMENT_STATUS.PENDING,
                        !.transactionId = << now, rnd >> ]
     IN IF \E p \in DOMAIN payments : payments[p].transactionId = payment.transactionId
          THEN /\ Respond(r, DuplicateKey("transactionId"))
               /\ UNCHANGED << payments, nextPid >>
          ELSE /\ payments' = [ p \in DOMAIN payments \cup {nextPid} |->
                                  IF p = nextPid THEN payment ELSE payments[p] ]
               /\ nextPid' = nextPid + 1
               /\ Respond(r, successResponse([ id |-> nextPid, payment |-> payment ],
                                            "Payment created successfully", HTTP_STATUS.CREATED))
  /\ UNCHANGED << users, roles, nextRid, now, refreshTokens, nextUid, loggedOut, issuedTokens, JWT_REFRESH_EXPIRES_IN >>

getAllPayments(r) ==
  /\ At(r, "getAllPayments", "ctrl")
  /\ LET hasGlobalReadPermission == PERMISSIONS.PAYMENTS_READ \in reqs[r].permissions
         query == reqs[r].body
         matches(p) ==
           /\ ~hasGlobalReadPermission => payments[p].user = reqs[r].user
           /\ (hasGlobalReadPermission /\ query.userId # Null) => payments[p].user = query.userId
           /\ query.status # Null => payments[p].status = query.status
     IN Respond(r, successResponse(
                     { [ id |-> p, user |-> payments[p].user, status |-> payments[p].status ] :
                         p \in { q \in DOMAIN payments : matches(q) } },
                     "Payments retrieved successfully", HTTP_STATUS.OK))
  /\ UNCHANGED << users, roles, payments, nextPid, nextRid, now, refreshTokens, nextUid, loggedOut, issuedTokens, JWT_REFRESH_EXPIRES_IN >>

getPaymentById(r) ==
  /\ At(r, "getPaymentById", "ctrl")
  /\ LET id == reqs[r].id IN
       IF id \notin DOMAIN payments THEN Respond(r, NotFound("Payment"))
       ELSE IF payments[id].user \notin DOMAIN users THEN Respond(r, ServerError)
       ELSE LET isOwner == payments[id].user = reqs[r].user
                hasGlobalReadPermission == PERMISSIONS.PAYMENTS_READ \in reqs[r].permissions
            IN IF ~isOwner /\ ~hasGlobalReadPermission
                 THEN Respond(r, errorResponse("You do not have permission to view this payment",
                                               HTTP_STATUS.FORBIDDEN, << >>))
                 ELSE Respond(r, successResponse([ id |-> id, payment |-> payments[id] ],
                                                 "Payment retrieved successfully", HTTP_STATUS.OK))
  /\ UNCHANGED << users, roles, payments, nextPid, nextRid, now, refreshTokens, nextUid, loggedOut, issuedTokens, JWT_REFRESH_EXPIRES_IN >>

\* mutants of LoadForTransition: the status check left out; the message naming
\* the status the handler expects instead of the current one
LoadForTransition_AnyStatus(r, verb, from) ==
  IF reqs[r].id \notin DOMAIN payments THEN [ ok |-> FALSE, res |-> NotFound("Payment") ]
  ELSE [ ok |-> TRUE, res |-> NoRes ]

LoadForTransition_ExpectedInMessage(r, verb, from) ==
  LET id == reqs[r].id IN
    IF id \notin DOMAIN payments THEN [ ok |-> FALSE, res |-> NotFound("Payment") ]
    ELSE IF payments[id].status # from
      THEN [ ok |-> FALSE,
             res |-> errorResponse("Payment cannot be " \o verb \o ". Current status: " \o from,
                                   HTTP_STATUS.BAD_REQUEST, << >>) ]
    ELSE [ ok |-> TRUE, res |-> NoRes ]

\* findById(id) of a transition handler, with the status check that follows it:
\* the handler answers 404 or 400, or holds the loaded document in doc.
LoadForTransition(r, verb, from) ==
  LET id == reqs[r].id IN
    IF id \notin DOMAIN payments THEN [ ok |-> FALSE, res |-> NotFound("Payment") ]
    ELSE IF payments[id].status # from
      THEN [ ok |-> FALSE,
             res |-> errorResponse("Payment cannot be " \o verb \o ". Current status: "
                                     \o payments[id].status,
                                   HTTP_STATUS.BAD_REQUEST, << >>) ]
    ELSE [ ok |-> TRUE, res |-> NoRes ]

Hold(r, doc, pc) == reqs' = [ reqs EXCEPT ![r].doc = doc, ![r].pc = pc ]

approvePaymentFind(r) ==
  /\ At(r, "approvePayment", "ctrl")
  /\ LET l == LoadForTransition(r, "approved", PAYMENT_STATUS.PENDING) IN
       IF ~l.ok THEN Respond(r, l.res)
       ELSE Hold(r, [ payments[reqs[r].id] EXCEPT !.status = PAYMENT_STATUS.APPROVED,
                                                   !.approvedBy = reqs[r].user,
                                                   !.approvedAt = now ], "save")
  /\ UNCHANGED << users, roles, payments, nextPid, nextRid, now, refreshTokens, nextUid, loggedOut, issuedTokens, JWT_REFRESH_EXPIRES_IN >>

approvePaymentSave(r) ==
  /\ At(r, "approvePayment", "save")
  /\ IF reqs[r].id \in DOMAIN payments
       THEN /\ payments' = SavePaths(reqs[r].id, reqs[r].doc, {"status", "approvedBy", "approvedAt"})
            /\ Respond(r, successResponse([ id |-> reqs[r].id, payment |-> reqs[r].doc ],
                                          "Payment approved successfully", HTTP_STATUS.OK))
       ELSE /\ Respond(r, ServerError)
            /\ UNCHANGED payments
  /\ UNCHANGED << users, roles, nextPid, nextRid, now, refreshTokens, nextUid, loggedOut, issuedTokens, JWT_REFRESH_EXPIRES_IN >>

\* mutant of rejectPaymentFind: no default reason when the body carries none
rejectPaymentFind_NoDefaultReason(r) ==
  /\ At(r, "rejectPayment", "ctrl")
  /\ LET l == LoadForTransition(r, "rejected", PAYMENT_STATUS.PENDING) IN
       IF ~l.ok THEN Respond(r, l.res)
       ELSE Hold(r, [ payments[reqs[r].id] EXCEPT
                        !.status = PAYMENT_STATUS.REJECTED,
                        !.approvedBy = reqs[r].user,
                        !.approvedAt = now,
                        !.failureReason = reqs[r].body.reason ],
                 "save")
  /\ UNCHANGED << users, roles, payments, nextPid, nextRid, now, refreshTokens, nextUid, loggedOut, issuedTokens, JWT_REFRESH_EXPIRES_IN >>

rejectPaymentFind(r) ==
  /\ At(r, "rejectPayment", "ctrl")
  /\ LET l == LoadForTransition(r, "rejected", PAYMENT_STATUS.PENDING)
         reason == reqs[r].body.reason
     IN IF ~l.ok THEN Respond(r, l.res)
        ELSE Hold(r, [ payments[reqs[r].id] EXCEPT
                         !.status = PAYMENT_STATUS.REJECTED,
                         !.approvedBy = reqs[r].user,
                         !.approvedAt = now,
                         !.failureReason = IF reason # Null THEN reason ELSE DefaultRejectReason ],
                  "save")
  /\ UNCHANGED << users, roles, payments, nextPid, nextRid, now, refreshTokens, nextUid, loggedOut, issuedTokens, JWT_REFRESH_EXPIRES_IN >>

rejectPaymentSave(r) ==
  /\ At(r, "rejectPayment", "save")
  /\ IF reqs[r].id \in DOMAIN payments
       THEN /\ payments' = SavePaths(reqs[r].id, reqs[r].doc,
                                     {"status", "approvedBy", "approvedAt", "failureReason"})
            /\ Respond(r, successResponse([ id |-> reqs[r].id, payment |-> reqs[r].doc ],
                                          "Payment rejected successfully", HTTP_STATUS.OK))
       ELSE /\ Respond(r, ServerError)
            /\ UNCHANGED payments
  /\ UNCHANGED << users, roles, nextPid, nextRid, now, refreshTokens, nextUid, loggedOut, issuedTokens, JWT_REFRESH_EXPIRES_IN >>

\* mutant of processPaymentFind: the processor is not recorded
processPaymentFind_NoProcessor(r) ==
  /\ At(r, "processPayment", "ctrl")
  /\ LET l == LoadForTransition(r, "processed", PAYMENT_STATUS.APPROVED) IN
       IF ~l.ok THEN Respond(r, l.res)
       ELSE Hold(r, [ payments[reqs[r].id] EXCEPT !.status = PAYMENT_STATUS.PROCESSING,
                                                   !.processedAt = now ], "save")
  /\ UNCHANGED << users, roles, payments, nextPid, nextRid, now, refreshTokens, nextUid, loggedOut, issuedTokens, JWT_REFRESH_EXPIRES_IN >>

processPaymentFind(r) ==
  /\ At(r, "processPayment", "ctrl")
  /\ LET l == LoadForTransition(r, "processed", PAYMENT_STATUS.APPROVED) IN
       IF ~l.ok THEN Respond(r, l.res)
       ELSE Hold(r, [ payments[reqs[r].id] EXCEPT !.status = PAYMENT_STATUS.PROCESSING,
                                                   !.processedBy = reqs[r].user,
                                                   !.processedAt = now ], "save")
  /\ UNCHANGED << users, roles, payments, nextPid, nextRid, now, refreshTokens, nextUid, loggedOut, issuedTokens, JWT_REFRESH_EXPIRES_IN >>

\* first save (processing), then the outcome draw: Math.random() > 0.2
processPaymentSaveProcessing(r, isSuccessful) ==
  /\ At(r, "processPayment", "save")
  /\ IF reqs[r].id \in DOMAIN payments
       THEN /\ payments' = SavePaths(reqs[r].id, reqs[r].doc, {"status", "processedBy", "processedAt"})
            /\ Hold(r, IF isSuccessful
                         THEN [ reqs[r].doc EXCEPT !.status = PAYMENT_STATUS.COMPLETED,
                                                   !.completedAt = now ]
                         ELSE [ reqs[r].doc EXCEPT !.status = PAYMENT_STATUS.FAILED,
                                                   !.failureReason = GatewayFailureReason ],
                    "save2")
       ELSE /\ Respond(r, ServerError)
            /\ UNCHANGED payments
  /\ UNCHANGED << users, roles, nextPid, nextRid, now, refreshTokens, nextUid, loggedOut, issuedTokens, JWT_REFRESH_EXPIRES_IN >>

processPaymentSaveOutcome(r) ==
  /\ At(r, "processPayment", "save2")
  /\ LET isSuccessful == reqs[r].doc.status = PAYMENT_STATUS.COMPLETED IN
       IF reqs[r].id \in DOMAIN payments
         THEN /\ payments' = SavePaths(reqs[r].id, reqs[r].doc,
                                       IF isSuccessful THEN {"status", "completedAt"}
                                                       ELSE {"status", "failureReason"})
              /\ Respond(r, successResponse([ id |-> reqs[r].id, payment |-> reqs[r].doc ],
                                            "Payment " \o (IF isSuccessful THEN "completed" ELSE "failed")
                                              \o " successfully", HTTP_STATUS.OK))
         ELSE /\ Respond(r, ServerError)
              /\ UNCHANGED payments
  /\ UNCHANGED << users, roles, nextPid, nextRid, now, refreshTokens, nextUid, loggedOut, issuedTokens, JWT_REFRESH_EXPIRES_IN >>

\* mutant of deletePaymentFind: only completed payments are protected
deletePaymentFind_OnlyCompleted(r) ==
  /\ At(r, "deletePayment", "ctrl")
  /\ LET id == reqs[r].id IN
       IF id \notin DOMAIN payments THEN Respond(r, NotFound("Payment"))
       ELSE IF payments[id].status \in { PAYMENT_STATUS.COMPLETED }
         THEN Respond(r, errorResponse("Cannot delete a payment that is processing or completed",
                                       HTTP_STATUS.BAD_REQUEST, << >>))
       ELSE Hold(r, payments[id], "delete")
  /\ UNCHANGED << users, roles, payments, nextPid, nextRid, now, refreshTokens, nextUid, loggedOut, issuedTokens, JWT_REFRESH_EXPIRES_IN >>

\* mutant of deletePaymentFind: failed payments are refused as well
deletePaymentFind_RefusesFailed(r) ==
  /\ At(r, "deletePayment", "ctrl")
  /\ LET id == reqs[r].id IN
       IF id \notin DOMAIN payments THEN Respond(r, NotFound("Payment"))
       ELSE IF payments[id].status \in { PAYMENT_STATUS.PROCESSING, PAYMENT_STATUS.COMPLETED,
                                         PAYMENT_STATUS.FAILED }
         THEN Respond(r, errorResponse("Cannot delete a payment that is processing or completed",
                                       HTTP_STATUS.BAD_REQUEST, << >>))
       ELSE Hold(r, payments[id], "delete")
  /\ UNCHANGED << users, roles, payments, nextPid, nextRid, now, refreshTokens, nextUid, loggedOut, issuedTokens, JWT_REFRESH_EXPIRES_IN >>

deletePaymentFind(r) ==
  /\ At(r, "deletePayment", "ctrl")
  /\ LET id == reqs[r].id IN
       IF id \notin DOMAIN payments THEN Respond(r, NotFound("Payment"))
       ELSE IF payments[id].status \in { PAYMENT_STATUS.PROCESSING, PAYMENT_STATUS.COMPLETED }
         THEN Respond(r, errorResponse("Cannot delete a payment that is processing or completed",
                                       HTTP_STATUS.BAD_REQUEST, << >>))
       ELSE Hold(r, payments[id], "delete")
  /\ UNCHANGED << users, roles, payments, nextPid, nextRid, now, refreshTokens, nextUid, loggedOut, issuedTokens, JWT_REFRESH_EXPIRES_IN >>

deletePaymentDeleteOne(r) ==
  /\ At(r, "deletePayment", "delete")
  /\ payments' = [ p \in DOMAIN payments \ { reqs[r].id } |-> payments[p] ]
  /\ Respond(r, successResponse(<< >>, "Payment deleted successfully", HTTP_STATUS.OK))
  /\ UNCHANGED << users, roles, nextPid, nextRid, now, refreshTokens, nextUid, loggedOut, issuedTokens, JWT_REFRESH_EXPIRES_IN >>

\* ------------------------------------------------------------- environment
\* time passes
Tick ==
  /\ now < MaxClock
  /\ now' = now + 1
  /\ UNCHANGED << users, roles, payments, nextPid, nextRid, refreshTokens, nextUid, loggedOut, issuedTokens, JWT_REFRESH_EXPIRES_IN, reqs >>

\* the TTL index on expiresAt: the database removes an expired record at some
\* time after its expiry
TtlMonitor ==
  /\ \E t \in refreshTokens : t.expiresAt < now /\ refreshTokens' = refreshTokens \ { t }
  /\ UNCHANGED << users, roles, payments, nextPid, nextRid, now, nextUid, loggedOut, issuedTokens, JWT_REFRESH_EXPIRES_IN, reqs >>

\* the server process ends (process.exit) while requests are in flight: they
\* get no response and their remaining writes never happen
InFlight(r) == reqs[r].pc \notin {"idle", "done"}

ProcessExit ==
  /\ \E r \in Slots : InFlight(r)
  /\ reqs' = [ r \in Slots |-> IF InFlight(r) THEN IdleReq ELSE reqs[r] ]
  /\ UNCHANGED << users, roles, payments, nextPid, nextRid, now, refreshTokens, nextUid, loggedOut, issuedTokens, JWT_REFRESH_EXPIRES_IN >>

\* ---------------------------------------------------------- userController
DeleteUsersId(r, tok, id) ==
  /\ Free(r)
  /\ Admit(r, "deleteUser", tok, id, NoBody, { PERMISSIONS.USERS_DELETE }, TRUE)
  /\ UNCHANGED << users, roles, payments, nextPid, nextRid, now, refreshTokens, nextUid, loggedOut, issuedTokens, JWT_REFRESH_EXPIRES_IN >>

\* validateChangeRole: body('roleId').notEmpty()
PutUsersIdRole(r, tok, id, body) ==
  /\ Free(r)
  /\ Admit(r, "changeUserRole", tok, id, body, { PERMISSIONS.USERS_WRITE }, body.roleId # Null)
  /\ UNCHANGED << users, roles, payments, nextPid, nextRid, now, refreshTokens, nextUid, loggedOut, issuedTokens, JWT_REFRESH_EXPIRES_IN >>

\* validateUpdateUser: every field optional; the bodies sent are well formed
\* GET /api/users/:id: authenticate, validateUserId, no permission gate
GetUsersId(r, tok, id) ==
  /\ Free(r)
  /\ AdmitOpen(r, "getUserById", tok, id, NoBody, TRUE)
  /\ UNCHANGED << users, roles, payments, nextPid, nextRid, now, refreshTokens, nextUid, loggedOut, issuedTokens, JWT_REFRESH_EXPIRES_IN >>

\* userSchema.methods.toJSON: the document without its password
toJSON(user) == [ f \in DOMAIN user \ { "password" } |-> user[f] ]

\* mutant of getUserById: only the permission counts
getUserById_PermissionOnly(r) ==
  /\ At(r, "getUserById", "ctrl")
  /\ LET id == reqs[r].id
         isOwnProfile == FALSE
         hasReadPermission == PERMISSIONS.USERS_READ \in reqs[r].permissions
     IN IF ~isOwnProfile /\ ~hasReadPermission
          THEN Respond(r, errorResponse("You do not have permission to view this user",
                                        HTTP_STATUS.FORBIDDEN, << >>))
        ELSE IF id \notin DOMAIN users THEN Respond(r, NotFound("User"))
        ELSE Respond(r, successResponse([ id |-> id, user |-> toJSON(users[id]) ],
                                        "User retrieved successfully", HTTP_STATUS.OK))
  /\ UNCHANGED << users, roles, payments, nextPid, nextRid, now, refreshTokens, nextUid, loggedOut, issuedTokens, JWT_REFRESH_EXPIRES_IN >>

\* mutant of getUserById: the controller reads the caller's permissions again
getUserById_ReadsAgain(r) ==
  /\ At(r, "getUserById", "ctrl")
  /\ LET id == reqs[r].id
         isOwnProfile == reqs[r].user = id
         hasReadPermission == /\ reqs[r].user \in DOMAIN users
                              /\ PERMISSIONS.USERS_READ \in PermissionsOf(reqs[r].user)
     IN IF ~isOwnProfile /\ ~hasReadPermission
          THEN Respond(r, errorResponse("You do not have permission to view this user",
                                        HTTP_STATUS.FORBIDDEN, << >>))
        ELSE IF id \notin DOMAIN users THEN Respond(r, NotFound("User"))
        ELSE Respond(r, successResponse([ id |-> id, user |-> toJSON(users[id]) ],
                                        "User retrieved successfully", HTTP_STATUS.OK))
  /\ UNCHANGED << users, roles, payments, nextPid, nextRid, now, refreshTokens, nextUid, loggedOut, issuedTokens, JWT_REFRESH_EXPIRES_IN >>

getUserById(r) ==
  /\ At(r, "getUserById", "ctrl")
  /\ LET id == reqs[r].id
         isOwnProfile == reqs[r].user = id
         hasReadPermission == PERMISSIONS.USERS_READ \in reqs[r].permissions
     IN IF ~isOwnProfile /\ ~hasReadPermission
          THEN Respond(r, errorResponse("You do not have permission to view this user",
                                        HTTP_STATUS.FORBIDDEN, << >>))
        ELSE IF id \notin DOMAIN users THEN Respond(r, NotFound("User"))
        ELSE Respond(r, successResponse([ id |-> id, user |-> toJSON(users[id]) ],
                                        "User retrieved successfully", HTTP_STATUS.OK))
  /\ UNCHANGED << users, roles, payments, nextPid, nextRid, now, refreshTokens, nextUid, loggedOut, issuedTokens, JWT_REFRESH_EXPIRES_IN >>

PutUsersId(r, tok, id, body) ==
  /\ Free(r)
  /\ AdmitOpen(r, "updateUser", tok, id, body, TRUE)
  /\ UNCHANGED << users, roles, payments, nextPid, nextRid, now, refreshTokens, nextUid, loggedOut, issuedTokens, JWT_REFRESH_EXPIRES_IN >>

\* mutant of updateUserFind: the check on the caller's own isActive left out
updateUserFind_NoStatusCheck(r) ==
  /\ At(r, "updateUser", "ctrl")
  /\ LET id == reqs[r].id
         isOwnProfile == reqs[r].user = id
         hasWritePermission == PERMISSIONS.USERS_WRITE \in reqs[r].permissions
     IN IF ~isOwnProfile /\ ~hasWritePermission
          THEN Respond(r, errorResponse("You do not have permission to update this user",
                                        HTTP_STATUS.FORBIDDEN, << >>))
        ELSE IF id \notin DOMAIN users THEN Respond(r, NotFound("User"))
        ELSE Hold(r, users[id], "save")
  /\ UNCHANGED << users, roles, payments, nextPid, nextRid, now, refreshTokens, nextUid, loggedOut, issuedTokens, JWT_REFRESH_EXPIRES_IN >>

\* updateUser up to User.findById(id); firstName and lastName are not part of
\* the state
updateUserFind(r) ==
  /\ At(r, "updateUser", "ctrl")
  /\ LET id == reqs[r].id
         isOwnProfile == reqs[r].user = id
         hasWritePermission == PERMISSIONS.USERS_WRITE \in reqs[r].permissions
     IN IF ~isOwnProfile /\ ~hasWritePermission
          THEN Respond(r, errorResponse("You do not have permission to update this user",
                                        HTTP_STATUS.FORBIDDEN, << >>))
        ELSE IF isOwnProfile /\ "isActive" \in reqs[r].body.fields
          THEN Respond(r, errorResponse("You cannot change your own active status",
                                        HTTP_STATUS.FORBIDDEN, << >>))
        ELSE IF id \notin DOMAIN users THEN Respond(r, NotFound("User"))
        ELSE Hold(r, users[id], "save")
  /\ UNCHANGED << users, roles, payments, nextPid, nextRid, now, refreshTokens, nextUid, loggedOut, issuedTokens, JWT_REFRESH_EXPIRES_IN >>

\* the assignments to the loaded document and user.save(): the modified paths
\* are written to the stored document; the unique index on email applies
updateUserSave(r) ==
  /\ At(r, "updateUser", "save")
  /\ LET id == reqs[r].id
         body == reqs[r].body
         doc == reqs[r].doc
         hasWritePermission == PERMISSIONS.USERS_WRITE \in reqs[r].permissions
         emailModified == body.email # Null /\ body.email # doc.email
         isActiveModified == /\ "isActive" \in body.fields
                             /\ hasWritePermission
                             /\ body.isActive # doc.isActive
         ok == successResponse([ id |-> id ], "User updated successfully", HTTP_STATUS.OK)
     IN IF ~emailModified /\ ~isActiveModified
          THEN Respond(r, ok) /\ UNCHANGED users
        ELSE IF id \notin DOMAIN users
          THEN Respond(r, ServerError) /\ UNCHANGED users
        ELSE IF emailModified /\ \E u \in DOMAIN users \ {id} : users[u].email = body.email
          THEN Respond(r, DuplicateKey("email")) /\ UNCHANGED users
        ELSE /\ users' = [ users EXCEPT
                   ![id].email = IF emailModified THEN body.email ELSE @,
                   ![id].isActive = IF isActiveModified THEN body.isActive ELSE @ ]
             /\ Respond(r, ok)
  /\ UNCHANGED << roles, payments, nextPid, nextRid, now, refreshTokens, nextUid, loggedOut, issuedTokens, JWT_REFRESH_EXPIRES_IN >>

\* mutant of deleteUserFind: the self-deletion check left out
deleteUserFind_NoSelfCheck(r) ==
  /\ At(r, "deleteUser", "ctrl")
  /\ IF reqs[r].id \notin DOMAIN users THEN Respond(r, NotFound("User"))
     ELSE reqs' = [ reqs EXCEPT ![r].pc = "delete" ]
  /\ UNCHANGED << users, roles, payments, nextPid, nextRid, now, refreshTokens, nextUid, loggedOut, issuedTokens, JWT_REFRESH_EXPIRES_IN >>

deleteUserFind(r) ==
  /\ At(r, "deleteUser", "ctrl")
  /\ IF reqs[r].user = reqs[r].id
       THEN Respond(r, errorResponse("You cannot delete your own account", HTTP_STATUS.FORBIDDEN, << >>))
     ELSE IF reqs[r].id \notin DOMAIN users THEN Respond(r, NotFound("User"))
     ELSE reqs' = [ reqs EXCEPT ![r].pc = "delete" ]
  /\ UNCHANGED << users, roles, payments, nextPid, nextRid, now, refreshTokens, nextUid, loggedOut, issuedTokens, JWT_REFRESH_EXPIRES_IN >>

deleteUserDeleteOne(r) ==
  /\ At(r, "deleteUser", "delete")
  /\ users' = [ u \in DOMAIN users \ { reqs[r].id } |-> users[u] ]
  /\ Respond(r, successResponse(<< >>, "User deleted successfully", HTTP_STATUS.OK))
  /\ UNCHANGED << roles, payments, nextPid, nextRid, now, refreshTokens, nextUid, loggedOut, issuedTokens, JWT_REFRESH_EXPIRES_IN >>

\* mutant of changeUserRoleFindUser: the self-reassignment check left out
changeUserRoleFindUser_NoSelfCheck(r) ==
  /\ At(r, "changeUserRole", "ctrl")
  /\ IF reqs[r].id \notin DOMAIN users THEN Respond(r, NotFound("User"))
     ELSE reqs' = [ reqs EXCEPT ![r].pc = "findRole" ]
  /\ UNCHANGED << users, roles, payments, nextPid, nextRid, now, refreshTokens, nextUid, loggedOut, issuedTokens, JWT_REFRESH_EXPIRES_IN >>

changeUserRoleFindUser(r) ==
  /\ At(r, "changeUserRole", "ctrl")
  /\ IF reqs[r].user = reqs[r].id
       THEN Respond(r, errorResponse("You cannot change your own role", HTTP_STATUS.FORBIDDEN, << >>))
     ELSE IF reqs[r].id \notin DOMAIN users THEN Respond(r, NotFound("User"))
     ELSE reqs' = [ reqs EXCEPT ![r].pc = "findRole" ]
  /\ UNCHANGED << users, roles, payments, nextPid, nextRid, now, refreshTokens, nextUid, loggedOut, issuedTokens, JWT_REFRESH_EXPIRES_IN >>

changeUserRoleFindRole(r) ==
  /\ At(r, "changeUserRole", "findRole")
  /\ IF reqs[r].body.roleId \notin DOMAIN roles THEN Respond(r, NotFound("Role"))
     ELSE reqs' = [ reqs EXCEPT ![r].pc = "save" ]
  /\ UNCHANGED << users, roles, payments, nextPid, nextRid, now, refreshTokens, nextUid, loggedOut, issuedTokens, JWT_REFRESH_EXPIRES_IN >>

changeUserRoleSave(r) ==
  /\ At(r, "changeUserRole", "save")
  /\ IF reqs[r].id \in DOMAIN users
       THEN /\ users' = [ users EXCEPT ![reqs[r].id].role = reqs[r].body.roleId ]
            /\ Respond(r, successResponse([ id |-> reqs[r].id, role |-> reqs[r].body.roleId ],
                                          "User role updated successfully", HTTP_STATUS.OK))
       ELSE /\ Respond(r, ServerError)
            /\ UNCHANGED users
  /\ UNCHANGED << roles, payments, nextPid, nextRid, now, refreshTokens, nextUid, loggedOut, issuedTokens, JWT_REFRESH_EXPIRES_IN >>

\* ---------------------------------------------------------- authController
\* validity of a refresh token in units of the clock (JWT_REFRESH_EXPIRES_IN)
RefreshLifetime == 1

\* generateRefreshToken: jwt.sign({ id }, secret, { expiresIn }); the string is
\* determined by the user and the time of issue
RefreshJwt(uid, iat) == [ kind |-> "refresh", sub |-> uid, iat |-> iat ]

NoToken == [ kind |-> "none", sub |-> Null, iat |-> NoDate ]

\* a string that is not a token signed with the refresh secret
GarbageToken == [ kind |-> "garbage", sub |-> Null, iat |-> NoDate ]

\* getTokenExpiration(JWT_REFRESH_EXPIRES_IN)
getTokenExpiration == now + RefreshLifetime

\* the validity jwt.sign gives a refresh token: that of the record for "7d";
\* "1y" is a year to jwt.sign, while getTokenExpiration knows the units d, h
\* and m only and falls back to seven days
YearInLifetimes == 52

RefreshJwtLifetime ==
  IF JWT_REFRESH_EXPIRES_IN = "1y" THEN YearInLifetimes * RefreshLifetime ELSE RefreshLifetime

\* verifyToken(token, 'refresh'): jwt.verify throws JsonWebTokenError for a
\* string it cannot verify and TokenExpiredError from the second of expiry on
verifyRefreshToken(token) ==
  IF token.kind # "refresh" THEN "JsonWebTokenError"
  ELSE IF now >= token.iat + RefreshJwtLifetime THEN "TokenExpiredError"
  ELSE "ok"

\* refreshTokenSchema.methods.isExpired
isExpired(storedToken) == storedToken.expiresAt < now

\* a route with no authenticate step: the validator, then the controller
AdmitPublic(r, op, body, valid) ==
  reqs' = [ reqs EXCEPT ![r] =
    IF ~valid
      THEN [ IdleReq EXCEPT !.op = op, !.pc = "done",
               !.res = errorResponse("Validation failed", HTTP_STATUS.BAD_REQUEST, << >>) ]
      ELSE [ IdleReq EXCEPT !.op = op, !.body = body, !.pc = "ctrl" ] ]

\* users admitted for registration but not yet saved
PendingRegistrations ==
  Cardinality({ s \in Slots : reqs[s].op = "register" /\ reqs[s].pc \in {"ctrl", "findRole", "save"} })

PostAuthRegister(r, body) ==
  /\ Free(r)
  /\ nextUid + PendingRegistrations <= MaxNewUsers
  /\ AdmitPublic(r, "register", body, body.email # Null /\ body.password # Null)
  /\ UNCHANGED << users, roles, payments, nextPid, nextRid, now, refreshTokens, nextUid, loggedOut, issuedTokens, JWT_REFRESH_EXPIRES_IN >>

PostAuthLogin(r, body) ==
  /\ Free(r)
  /\ AdmitPublic(r, "login", body, body.email # Null /\ body.password # Null)
  /\ UNCHANGED << users, roles, payments, nextPid, nextRid, now, refreshTokens, nextUid, loggedOut, issuedTokens, JWT_REFRESH_EXPIRES_IN >>

PostAuthRefresh(r, body) ==
  /\ Free(r)
  /\ AdmitPublic(r, "refresh", body, body.refreshToken # NoToken)
  /\ UNCHANGED << users, roles, payments, nextPid, nextRid, now, refreshTokens, nextUid, loggedOut, issuedTokens, JWT_REFRESH_EXPIRES_IN >>

PostAuthLogout(r, body) ==
  /\ Free(r)
  /\ AdmitPublic(r, "logout", body, TRUE)
  /\ UNCHANGED << users, roles, payments, nextPid, nextRid, now, refreshTokens, nextUid, loggedOut, issuedTokens, JWT_REFRESH_EXPIRES_IN >>

\* RefreshToken.create({ token, user, expiresAt }) under the unique index on
\* token, and the answer of register / login
StoreRefreshToken(r, uid, message, statusCode) ==
  LET refreshToken == RefreshJwt(uid, now) IN
    IF \E t \in refreshTokens : t.token = refreshToken
      THEN /\ Respond(r, DuplicateKey("token"))
           /\ UNCHANGED << refreshTokens, issuedTokens >>
      ELSE /\ refreshTokens' = refreshTokens \cup
                 { [ token |-> refreshToken, user |-> uid, expiresAt |-> getTokenExpiration ] }
           /\ issuedTokens' = issuedTokens \cup { refreshToken }
           /\ Respond(r, successResponse([ user |-> uid, accessToken |-> AccessToken(uid),
                                           refreshToken |-> refreshToken ],
                                         message, statusCode))

registerFindUser(r) ==
  /\ At(r, "register", "ctrl")
  /\ IF \E u \in DOMAIN users : users[u].email = reqs[r].body.email
       THEN Respond(r, errorResponse("Email already registered", HTTP_STATUS.CONFLICT, << >>))
       ELSE reqs' = [ reqs EXCEPT ![r].pc = "findRole" ]
  /\ UNCHANGED << users, roles, payments, nextPid, nextRid, now, refreshTokens, nextUid, loggedOut, issuedTokens, JWT_REFRESH_EXPIRES_IN >>

\* Role.findOne({ name: ROLES.USER }); the role's _id is kept for the new user
registerFindRole(r) ==
  /\ At(r, "register", "findRole")
  /\ IF \E x \in DOMAIN roles : roles[x].name = "user"
       THEN \E x \in DOMAIN roles :
              /\ roles[x].name = "user"
              /\ reqs' = [ reqs EXCEPT ![r].pc = "save", ![r].body.roleId = x ]
       ELSE Respond(r, errorResponse("Default user role not found. Please run database seeding.",
                                     HTTP_STATUS.INTERNAL_SERVER_ERROR, << >>))
  /\ UNCHANGED << users, roles, payments, nextPid, nextRid, now, refreshTokens, nextUid, loggedOut, issuedTokens, JWT_REFRESH_EXPIRES_IN >>

\* mutant of registerSave: user.save() with no unique index on email
registerSave_NoUniqueIndex(r) ==
  /\ At(r, "register", "save")
  /\ LET body == reqs[r].body
         id == "u_" \o ToString(nextUid)
     IN /\ users' = [ u \in DOMAIN users \cup {id} |->
                        IF u = id THEN [ email |-> body.email, password |-> body.password,
                                         role |-> body.roleId, isActive |-> TRUE,
                                         lastLogin |-> NoDate ]
                                  ELSE users[u] ]
        /\ nextUid' = nextUid + 1
        /\ reqs' = [ reqs EXCEPT ![r].pc = "token", ![r].user = id ]
  /\ UNCHANGED << roles, payments, nextPid, nextRid, now, refreshTokens, loggedOut, issuedTokens, JWT_REFRESH_EXPIRES_IN >>

\* user.save() under the unique index on email
registerSave(r) ==
  /\ At(r, "register", "save")
  /\ LET body == reqs[r].body
         id == "u_" \o ToString(nextUid)
     IN IF \E u \in DOMAIN users : users[u].email = body.email
          THEN /\ Respond(r, DuplicateKey("email"))
               /\ UNCHANGED << users, nextUid, loggedOut, issuedTokens, JWT_REFRESH_EXPIRES_IN >>
          ELSE /\ users' = [ u \in DOMAIN users \cup {id} |->
                               IF u = id THEN [ email |-> body.email, password |-> body.password,
                                                role |-> body.roleId, isActive |-> TRUE,
                                                lastLogin |-> NoDate ]
                                         ELSE users[u] ]
               /\ nextUid' = nextUid + 1
               /\ reqs' = [ reqs EXCEPT ![r].pc = "token", ![r].user = id ]
  /\ UNCHANGED << roles, payments, nextPid, nextRid, now, refreshTokens, loggedOut, issuedTokens, JWT_REFRESH_EXPIRES_IN >>

registerStoreToken(r) ==
  /\ At(r, "register", "token")
  /\ StoreRefreshToken(r, reqs[r].user, "User registered successfully", HTTP_STATUS.CREATED)
  /\ UNCHANGED << users, roles, payments, nextPid, nextRid, now, nextUid, loggedOut, JWT_REFRESH_EXPIRES_IN >>

\* mutant of loginFindUser: the isActive check left out
loginFindUser_NoActiveCheck(r) ==
  /\ At(r, "login", "ctrl")
  /\ LET found == { u \in DOMAIN users : users[u].email = reqs[r].body.email }
         invalid == errorResponse("Invalid email or password", HTTP_STATUS.UNAUTHORIZED, << >>)
     IN IF found = {} THEN Respond(r, invalid)
        ELSE \E u \in found :
               IF users[u].password # reqs[r].body.password THEN Respond(r, invalid)
               ELSE reqs' = [ reqs EXCEPT ![r].pc = "save", ![r].user = u ]
  /\ UNCHANGED << users, roles, payments, nextPid, nextRid, now, refreshTokens, nextUid, loggedOut, issuedTokens, JWT_REFRESH_EXPIRES_IN >>

\* User.findOne({ email }), the isActive check and comparePassword
loginFindUser(r) ==
  /\ At(r, "login", "ctrl")
  /\ LET found == { u \in DOMAIN users : users[u].email = reqs[r].body.email }
         invalid == errorResponse("Invalid email or password", HTTP_STATUS.UNAUTHORIZED, << >>)
     IN IF found = {} THEN Respond(r, invalid)
        ELSE \E u \in found :
               IF ~users[u].isActive
                 THEN Respond(r, errorResponse("Account is inactive. Please contact support.",
                                               HTTP_STATUS.FORBIDDEN, << >>))
               ELSE IF users[u].password # reqs[r].body.password THEN Respond(r, invalid)
               ELSE reqs' = [ reqs EXCEPT ![r].pc = "save", ![r].user = u ]
  /\ UNCHANGED << users, roles, payments, nextPid, nextRid, now, refreshTokens, nextUid, loggedOut, issuedTokens, JWT_REFRESH_EXPIRES_IN >>

\* user.lastLogin = new Date(); user.save()
\* mutant of loginSave: lastLogin is not set
loginSave_NoLastLogin(r) ==
  /\ At(r, "login", "save")
  /\ reqs' = [ reqs EXCEPT ![r].pc = "token" ]
  /\ UNCHANGED << users, roles, payments, nextPid, nextRid, now, refreshTokens, nextUid, loggedOut, issuedTokens, JWT_REFRESH_EXPIRES_IN >>

loginSave(r) ==
  /\ At(r, "login", "save")
  /\ IF reqs[r].user \in DOMAIN users
       THEN /\ users' = [ users EXCEPT ![reqs[r].user].lastLogin = now ]
            /\ reqs' = [ reqs EXCEPT ![r].pc = "token" ]
       ELSE /\ Respond(r, ServerError)
            /\ UNCHANGED users
  /\ UNCHANGED << roles, payments, nextPid, nextRid, now, refreshTokens, nextUid, loggedOut, issuedTokens, JWT_REFRESH_EXPIRES_IN >>

loginStoreToken(r) ==
  /\ At(r, "login", "token")
  /\ StoreRefreshToken(r, reqs[r].user, "Login successful", HTTP_STATUS.OK)
  /\ UNCHANGED << users, roles, payments, nextPid, nextRid, now, nextUid, loggedOut, JWT_REFRESH_EXPIRES_IN >>

\* verifyToken, RefreshToken.findOne({ token }), storedToken.isExpired()
refreshFindToken(r) ==
  /\ At(r, "refresh", "ctrl")
  /\ LET refreshToken == reqs[r].body.refreshToken
         stored == { t \in refreshTokens : t.token = refreshToken }
     IN IF verifyRefreshToken(refreshToken) # "ok"
          THEN Respond(r, errorResponse("Invalid or expired refresh token",
                                        HTTP_STATUS.UNAUTHORIZED, << >>))
        ELSE IF stored = {}
          THEN Respond(r, errorResponse("Invalid refresh token", HTTP_STATUS.UNAUTHORIZED, << >>))
        ELSE IF \E t \in stored : isExpired(t)
          THEN reqs' = [ reqs EXCEPT ![r].pc = "expire" ]
        ELSE reqs' = [ reqs EXCEPT ![r].pc = "findUser" ]
  /\ UNCHANGED << users, roles, payments, nextPid, nextRid, now, refreshTokens, nextUid, loggedOut, issuedTokens, JWT_REFRESH_EXPIRES_IN >>

\* storedToken.deleteOne()
refreshDeleteExpired(r) ==
  /\ At(r, "refresh", "expire")
  /\ refreshTokens' = { t \in refreshTokens : t.token # reqs[r].body.refreshToken }
  /\ Respond(r, errorResponse("Refresh token expired", HTTP_STATUS.UNAUTHORIZED, << >>))
  /\ UNCHANGED << users, roles, payments, nextPid, nextRid, now, nextUid, loggedOut, issuedTokens, JWT_REFRESH_EXPIRES_IN >>

\* mutant of refreshFindUser: the user of the token is not looked up
refreshFindUser_NoUserCheck(r) ==
  /\ At(r, "refresh", "findUser")
  /\ Respond(r, successResponse([ accessToken |-> AccessToken(reqs[r].body.refreshToken.sub) ],
                                "Token refreshed successfully", HTTP_STATUS.OK))
  /\ UNCHANGED << users, roles, payments, nextPid, nextRid, now, refreshTokens, nextUid, loggedOut, issuedTokens, JWT_REFRESH_EXPIRES_IN >>

\* User.findById(decoded.id) and generateAccessToken
refreshFindUser(r) ==
  /\ At(r, "refresh", "findUser")
  /\ LET uid == reqs[r].body.refreshToken.sub IN
       IF uid \notin DOMAIN users \/ ~users[uid].isActive
         THEN Respond(r, errorResponse("User not found or inactive", HTTP_STATUS.UNAUTHORIZED, << >>))
         ELSE Respond(r, successResponse([ accessToken |-> AccessToken(uid) ],
                                         "Token refreshed successfully", HTTP_STATUS.OK))
  /\ UNCHANGED << users, roles, payments, nextPid, nextRid, now, refreshTokens, nextUid, loggedOut, issuedTokens, JWT_REFRESH_EXPIRES_IN >>

\* mutant of logout: removes every refresh record of the token's user
logout_AllOfUser(r) ==
  /\ At(r, "logout", "ctrl")
  /\ refreshTokens' = { t \in refreshTokens : t.user # reqs[r].body.refreshToken.sub }
  /\ loggedOut' = IF reqs[r].body.refreshToken # NoToken
                    THEN loggedOut \cup { reqs[r].body.refreshToken }
                    ELSE loggedOut
  /\ Respond(r, successResponse(<< >>, "Logout successful", HTTP_STATUS.OK))
  /\ UNCHANGED << users, roles, payments, nextPid, nextRid, now, nextUid, issuedTokens, JWT_REFRESH_EXPIRES_IN >>

\* if (refreshToken) RefreshToken.deleteOne({ token: refreshToken })
logout(r) ==
  /\ At(r, "logout", "ctrl")
  /\ refreshTokens' = IF reqs[r].body.refreshToken # NoToken
                        THEN { t \in refreshTokens : t.token # reqs[r].body.refreshToken }
                        ELSE refreshTokens
  /\ loggedOut' = IF reqs[r].body.refreshToken # NoToken
                    THEN loggedOut \cup { reqs[r].body.refreshToken }
                    ELSE loggedOut
  /\ Respond(r, successResponse(<< >>, "Logout successful", HTTP_STATUS.OK))
  /\ UNCHANGED << users, roles, payments, nextPid, nextRid, now, nextUid, issuedTokens, JWT_REFRESH_EXPIRES_IN >>

\* ---------------------------------------------------------- roleController
GetRoles(r, tok) ==
  /\ Free(r)
  /\ Admit(r, "getAllRoles", tok, Null, NoBody, { PERMISSIONS.ROLES_MANAGE }, TRUE)
  /\ UNCHANGED << users, roles, payments, nextPid, nextRid, now, refreshTokens, nextUid, loggedOut, issuedTokens, JWT_REFRESH_EXPIRES_IN >>

GetRolesId(r, tok, id) ==
  /\ Free(r)
  /\ Admit(r, "getRoleById", tok, id, NoBody, { PERMISSIONS.ROLES_MANAGE }, TRUE)
  /\ UNCHANGED << users, roles, payments, nextPid, nextRid, now, refreshTokens, nextUid, loggedOut, issuedTokens, JWT_REFRESH_EXPIRES_IN >>

\* roles admitted for creation but not yet saved
PendingRoleCreates ==
  Cardinality({ s \in Slots : reqs[s].op = "createRole" /\ reqs[s].pc \in {"ctrl", "save"} })

\* body('name').notEmpty(); body('permissions').isArray()
PostRoles(r, tok, body) ==
  /\ Free(r)
  /\ nextRid + PendingRoleCreates <= MaxNewRoles
  /\ Admit(r, "createRole", tok, Null, body, { PERMISSIONS.ROLES_MANAGE },
           body.name # Null /\ "permissions" \in body.fields)
  /\ UNCHANGED << users, roles, payments, nextPid, nextRid, now, refreshTokens, nextUid, loggedOut, issuedTokens, JWT_REFRESH_EXPIRES_IN >>

PutRolesId(r, tok, id, body) ==
  /\ Free(r)
  /\ Admit(r, "updateRole", tok, id, body, { PERMISSIONS.ROLES_MANAGE }, TRUE)
  /\ UNCHANGED << users, roles, payments, nextPid, nextRid, now, refreshTokens, nextUid, loggedOut, issuedTokens, JWT_REFRESH_EXPIRES_IN >>

DeleteRolesId(r, tok, id) ==
  /\ Free(r)
  /\ Admit(r, "deleteRole", tok, id, NoBody, { PERMISSIONS.ROLES_MANAGE }, TRUE)
  /\ UNCHANGED << users, roles, payments, nextPid, nextRid, now, refreshTokens, nextUid, loggedOut, issuedTokens, JWT_REFRESH_EXPIRES_IN >>

getAllRoles(r) ==
  /\ At(r, "getAllRoles", "ctrl")
  /\ Respond(r, successResponse(roles, "Roles retrieved successfully", HTTP_STATUS.OK))
  /\ UNCHANGED << users, roles, payments, nextPid, nextRid, now, refreshTokens, nextUid, loggedOut, issuedTokens, JWT_REFRESH_EXPIRES_IN >>

\* User.countDocuments({ role: id })
userCount(id) == Cardinality({ u \in DOMAIN users : users[u].role = id })

getRoleByIdFind(r) ==
  /\ At(r, "getRoleById", "ctrl")
  /\ IF reqs[r].id \notin DOMAIN roles THEN Respond(r, NotFound("Role"))
     ELSE reqs' = [ reqs EXCEPT ![r].pc = "count" ]
  /\ UNCHANGED << users, roles, payments, nextPid, nextRid, now, refreshTokens, nextUid, loggedOut, issuedTokens, JWT_REFRESH_EXPIRES_IN >>

getRoleByIdCount(r) ==
  /\ At(r, "getRoleById", "count")
  /\ Respond(r, successResponse([ id |-> reqs[r].id, userCount |-> userCount(reqs[r].id) ],
                                "Role retrieved successfully", HTTP_STATUS.OK))
  /\ UNCHANGED << users, roles, payments, nextPid, nextRid, now, refreshTokens, nextUid, loggedOut, issuedTokens, JWT_REFRESH_EXPIRES_IN >>

\* name.toLowerCase()
Lower(s) == CASE s = "Manager" -> "manager" [] s = "Support" -> "support" [] OTHER -> s

\* roleSchema.name: enum
RoleNameEnum == { "admin", "manager", "user" }

NameTaken(name) == \E x \in DOMAIN roles : roles[x].name = name

createRoleFind(r) ==
  /\ At(r, "createRole", "ctrl")
  /\ IF NameTaken(Lower(reqs[r].body.name))
       THEN Respond(r, errorResponse("Role with this name already exists", HTTP_STATUS.CONFLICT, << >>))
       ELSE reqs' = [ reqs EXCEPT ![r].pc = "save" ]
  /\ UNCHANGED << users, roles, payments, nextPid, nextRid, now, refreshTokens, nextUid, loggedOut, issuedTokens, JWT_REFRESH_EXPIRES_IN >>

\* role.save(): schema validation (errorHandler: ValidationError), then the
\* insert under the unique index on name
createRoleSave(r) ==
  /\ At(r, "createRole", "save")
  /\ LET name == Lower(reqs[r].body.name)
         id == "r_" \o ToString(nextRid)
     IN IF name \notin RoleNameEnum
          THEN /\ Respond(r, errorResponse("Validation failed", HTTP_STATUS.BAD_REQUEST, << >>))
               /\ UNCHANGED << roles, nextRid >>
        ELSE IF NameTaken(name)
          THEN /\ Respond(r, DuplicateKey("name"))
               /\ UNCHANGED << roles, nextRid >>
        ELSE /\ roles' = [ x \in DOMAIN roles \cup {id} |->
                             IF x = id THEN [ name |-> name, permissions |-> reqs[r].body.permissions ]
                                       ELSE roles[x] ]
             /\ nextRid' = nextRid + 1
             /\ Respond(r, successResponse([ id |-> id, name |-> name,
                                             permissions |-> reqs[r].body.permissions ],
                                           "Role created successfully", HTTP_STATUS.CREATED))
  /\ UNCHANGED << users, payments, nextPid, now, refreshTokens, nextUid, loggedOut, issuedTokens, JWT_REFRESH_EXPIRES_IN >>

\* Role.findById(id); if (permissions) role.permissions = permissions
updateRoleFind(r) ==
  /\ At(r, "updateRole", "ctrl")
  /\ IF reqs[r].id \notin DOMAIN roles THEN Respond(r, NotFound("Role"))
     ELSE reqs' = [ reqs EXCEPT ![r].pc = "save", ![r].doc = roles[reqs[r].id] ]
  /\ UNCHANGED << users, roles, payments, nextPid, nextRid, now, refreshTokens, nextUid, loggedOut, issuedTokens, JWT_REFRESH_EXPIRES_IN >>

\* role.save(): writes the modified paths of the document that was read; with
\* no modified path nothing is sent to the database
updateRoleSave(r) ==
  /\ At(r, "updateRole", "save")
  /\ LET body == reqs[r].body
         modified == "permissions" \in body.fields /\ body.permissions # reqs[r].doc.permissions
         permissions == IF modified THEN body.permissions ELSE reqs[r].doc.permissions
         ok == successResponse([ id |-> reqs[r].id, permissions |-> permissions ],
                               "Role updated successfully", HTTP_STATUS.OK)
     IN IF ~modified THEN Respond(r, ok) /\ UNCHANGED roles
        ELSE IF reqs[r].id \in DOMAIN roles
          THEN /\ roles' = [ roles EXCEPT ![reqs[r].id].permissions = body.permissions ]
               /\ Respond(r, ok)
          ELSE /\ Respond(r, ServerError)
               /\ UNCHANGED roles
  /\ UNCHANGED << users, payments, nextPid, nextRid, now, refreshTokens, nextUid, loggedOut, issuedTokens, JWT_REFRESH_EXPIRES_IN >>

deleteRoleFind(r) ==
  /\ At(r, "deleteRole", "ctrl")
  /\ IF reqs[r].id \notin DOMAIN roles THEN Respond(r, NotFound("Role"))
     ELSE reqs' = [ reqs EXCEPT ![r].pc = "count" ]
  /\ UNCHANGED << users, roles, payments, nextPid, nextRid, now, refreshTokens, nextUid, loggedOut, issuedTokens, JWT_REFRESH_EXPIRES_IN >>

\* mutant of deleteRoleCount: the controller's count of referencing users left out
deleteRoleCount_NoCheck(r) ==
  /\ At(r, "deleteRole", "count")
  /\ reqs' = [ reqs EXCEPT ![r].pc = "hook" ]
  /\ UNCHANGED << users, roles, payments, nextPid, nextRid, now, refreshTokens, nextUid, loggedOut, issuedTokens, JWT_REFRESH_EXPIRES_IN >>

deleteRoleCount(r) ==
  /\ At(r, "deleteRole", "count")
  /\ IF userCount(reqs[r].id) > 0
       THEN Respond(r, errorResponse("Cannot delete role. " \o ToString(userCount(reqs[r].id))
                                       \o " user(s) are assigned to this role.",
                                     HTTP_STATUS.BAD_REQUEST, << >>))
       ELSE reqs' = [ reqs EXCEPT ![r].pc = "hook" ]
  /\ UNCHANGED << users, roles, payments, nextPid, nextRid, now, refreshTokens, nextUid, loggedOut, issuedTokens, JWT_REFRESH_EXPIRES_IN >>

\* roleSchema.pre('deleteOne'): counts again and throws
deleteRoleHook(r) ==
  /\ At(r, "deleteRole", "hook")
  /\ IF userCount(reqs[r].id) > 0 THEN Respond(r, ServerError)
     ELSE reqs' = [ reqs EXCEPT ![r].pc = "delete" ]
  /\ UNCHANGED << users, roles, payments, nextPid, nextRid, now, refreshTokens, nextUid, loggedOut, issuedTokens, JWT_REFRESH_EXPIRES_IN >>

deleteRoleDeleteOne(r) ==
  /\ At(r, "deleteRole", "delete")
  /\ roles' = [ x \in DOMAIN roles \ { reqs[r].id } |-> roles[x] ]
  /\ Respond(r, successResponse(<< >>, "Role deleted successfully", HTTP_STATUS.OK))
  /\ UNCHANGED << users, payments, nextPid, nextRid, now, refreshTokens, nextUid, loggedOut, issuedTokens, JWT_REFRESH_EXPIRES_IN >>

\* ------------------------------------------------------------------ inputs
Tokens(callers) == { AccessToken(u) : u \in callers }

CreateBodies ==
  { [ NoBody EXCEPT !.amount = 9999, !.description = " Invoice 1001 " ],
    [ NoBody EXCEPT !.amount = 0 ] }

RejectBodies == { NoBody, [ NoBody EXCEPT !.reason = "Suspicious" ] }

ListQueries == { NoBody, [ NoBody EXCEPT !.userId = "user1" ] }

\* bodies of role requests: a name and a permissions array
RoleBody(name, permissions) ==
  [ NoBody EXCEPT !.name = name, !.fields = { "permissions" }, !.permissions = permissions ]

ChangeRoleBody(roleId) == [ NoBody EXCEPT !.roleId = roleId ]

\* bodies of the auth routes
Credentials(email, password) == [ NoBody EXCEPT !.email = email, !.password = password ]

TokenBody(token) == [ NoBody EXCEPT !.refreshToken = token ]

\* what a client can send as a refresh token: a token that was issued, or a
\* string that is no token
RefreshTokenInputs == issuedTokens \cup { GarbageToken }

\* what a client can send as a bearer token in the name of a user: nothing, the
\* user's access token before or after its expiry, a string that is no token,
\* or a refresh token it received
BearerInputs(uid) ==
  { NoToken, AccessToken(uid), [ AccessToken(uid) EXCEPT !.expired = TRUE ], GarbageToken }
    \cup { t \in issuedTokens : t.sub = uid }

\* bodies of PUT /api/users/:id: a new email address, or isActive
UpdateUserBodies ==
  { [ NoBody EXCEPT !.email = "new@example.com" ],
    [ NoBody EXCEPT !.fields = { "isActive" }, !.isActive = FALSE ],
    [ NoBody EXCEPT !.fields = { "isActive" }, !.isActive = TRUE ] }

\* random components of transaction identifiers that never repeat
FreshSuffixes == { nextPid }

\* --------------------------------------------------------------- behaviours
Init ==
  /\ users = SeedUsers
  /\ roles = SeedRoles
  /\ payments = << >>
  /\ nextPid = 1
  /\ nextRid = 1
  /\ nextUid = 1
  /\ refreshTokens = {}
  /\ loggedOut = {}
  /\ issuedTokens = {}
  /\ JWT_REFRESH_EXPIRES_IN = "7d"
  /\ now = 0
  /\ reqs = [ r \in Slots |-> IdleReq ]

\* a step of a workflow handler (create, approve, reject, process, delete) in slot r
WorkflowStep(r) ==
  \/ \E rnd \in FreshSuffixes : createPayment(r, rnd)
  \/ approvePaymentFind(r)
  \/ approvePaymentSave(r)
  \/ rejectPaymentFind(r)
  \/ rejectPaymentSave(r)
  \/ processPaymentFind(r)
  \/ \E isSuccessful \in BOOLEAN : processPaymentSaveProcessing(r, isSuccessful)
  \/ processPaymentSaveOutcome(r)
  \/ deletePaymentFind(r)
  \/ deletePaymentDeleteOne(r)

\* a request on a workflow route arrives in slot r
WorkflowRequest(r) ==
  \/ \E tok \in Tokens({"user1"}), body \in CreateBodies : PostPayments(r, tok, body)
  \/ \E tok \in Tokens({"manager", "user1"}), id \in PaymentIds :
       \/ PutPaymentsIdApprove(r, tok, id)
       \/ \E body \in RejectBodies : PutPaymentsIdReject(r, tok, id, body)
       \/ DeletePaymentsId(r, tok, id)
  \/ \E tok \in Tokens({"admin", "manager", "user1"}), id \in PaymentIds :
       PutPaymentsIdProcess(r, tok, id)

\* Requests executed one at a time: a request arrives only when none is in
\* flight.  The process may end between any two steps of a request.
OneAtATime == \A s \in Slots : ~InFlight(s)

NextSeq ==
  \/ OneAtATime /\ WorkflowRequest(1)
  \/ WorkflowStep(1)
  \/ ProcessExit

SpecSeq == Init /\ [][NextSeq]_vars

\* Concurrent requests on one seeded pending payment (seedPayments, first
\* record): every slot may hold a request, and their steps interleave.
SeededPayment ==
  [ NoPayment EXCEPT !.user = "user1", !.amount = 9999, !.currency = "USD",
                     !.description = "Invoice 1001", !.paymentMethod = "card", !.status = PAYMENT_STATUS.PENDING,
                     !.transactionId = << 0, 0 >> ]

InitSeeded ==
  /\ users = SeedUsers
  /\ roles = SeedRoles
  /\ payments = << SeededPayment >>
  /\ nextPid = 2
  /\ nextRid = 1
  /\ nextUid = 1
  /\ refreshTokens = {}
  /\ loggedOut = {}
  /\ issuedTokens = {}
  /\ JWT_REFRESH_EXPIRES_IN = "7d"
  /\ now = 0
  /\ reqs = [ r \in Slots |-> IdleReq ]

TransitionRequest(r) ==
  \E tok \in Tokens({"manager"}), id \in DOMAIN payments :
    \/ PutPaymentsIdApprove(r, tok, id)
    \/ PutPaymentsIdReject(r, tok, id, NoBody)
    \/ PutPaymentsIdProcess(r, tok, id)
    \/ DeletePaymentsId(r, tok, id)

TransitionStep(r) ==
  \/ approvePaymentFind(r)
  \/ approvePaymentSave(r)
  \/ rejectPaymentFind(r)
  \/ rejectPaymentSave(r)
  \/ processPaymentFind(r)
  \/ \E isSuccessful \in BOOLEAN : processPaymentSaveProcessing(r, isSuccessful)
  \/ processPaymentSaveOutcome(r)
  \/ deletePaymentFind(r)
  \/ deletePaymentDeleteOne(r)

NextConc == \E r \in Slots : TransitionRequest(r) \/ TransitionStep(r)

SpecConc == InitSeeded /\ [][NextConc]_vars

\* Every gated route, one request at a time, on the seeded payment and the
\* seeded users and roles.  admin holds every permission; user1 holds those of
\* the user role, which admin may empty.
SeededPaymentIds == DOMAIN << SeededPayment >>

GatedRequest(r) ==
  \/ \E tok \in Tokens({"user1"}), body \in CreateBodies : PostPayments(r, tok, body)
  \/ \E tok \in Tokens({"admin", "user1"}) :
       \/ \E id \in SeededPaymentIds :
            \/ PutPaymentsIdApprove(r, tok, id)
            \/ PutPaymentsIdReject(r, tok, id, NoBody)
            \/ PutPaymentsIdProcess(r, tok, id)
            \/ DeletePaymentsId(r, tok, id)
       \/ DeleteUsersId(r, tok, "user2")
       \/ \E roleId \in {"r_user", "r_manager"} :
            PutUsersIdRole(r, tok, "manager", ChangeRoleBody(roleId))
       \/ GetRoles(r, tok)
       \/ GetRolesId(r, tok, "r_manager")
       \/ \E name \in { "Manager", "Support" } :
            PostRoles(r, tok, RoleBody(name, { "payments:read" }))
       \/ PutRolesId(r, tok, "r_user", RoleBody(Null, {}))
       \/ DeleteRolesId(r, tok, "r_manager")

UserStep(r) ==
  \/ deleteUserFind(r)
  \/ deleteUserDeleteOne(r)
  \/ changeUserRoleFindUser(r)
  \/ changeUserRoleFindRole(r)
  \/ changeUserRoleSave(r)

RoleStep(r) ==
  \/ getAllRoles(r)
  \/ getRoleByIdFind(r)
  \/ getRoleByIdCount(r)
  \/ createRoleFind(r)
  \/ createRoleSave(r)
  \/ updateRoleFind(r)
  \/ updateRoleSave(r)
  \/ deleteRoleFind(r)
  \/ deleteRoleCount(r)
  \/ deleteRoleHook(r)
  \/ deleteRoleDeleteOne(r)

NextGated ==
  \/ OneAtATime /\ GatedRequest(1)
  \/ WorkflowStep(1)
  \/ UserStep(1)
  \/ RoleStep(1)

SpecGated == InitSeeded /\ [][NextGated]_vars

\* Reads of payments, one request at a time: user1 and user2 create payments,
\* and they and manager list and read them; admin may take payments:read from
\* the user role and may delete user1.
ReadRequest(r) ==
  \/ \E tok \in Tokens({"user1", "user2"}), body \in CreateBodies : PostPayments(r, tok, body)
  \/ \E tok \in Tokens({"manager", "user1", "user2"}) :
       \/ \E query \in ListQueries : GetPayments(r, tok, query)
       \/ \E id \in PaymentIds : GetPaymentsId(r, tok, id)
  \/ \E tok \in Tokens({"admin"}) :
       \/ PutRolesId(r, tok, "r_user", RoleBody(Null, { "payments:create" }))
       \/ DeleteUsersId(r, tok, "user1")

ReadStep(r) ==
  \/ \E rnd \in FreshSuffixes : createPayment(r, rnd)
  \/ getAllPayments(r)
  \/ getPaymentById(r)
  \/ updateRoleFind(r)
  \/ updateRoleSave(r)
  \/ deleteUserFind(r)
  \/ deleteUserDeleteOne(r)

NextRead ==
  \/ OneAtATime /\ ReadRequest(1)
  \/ ReadStep(1)

SpecRead == Init /\ [][NextRead]_vars

\* User management, one request at a time: admin and user1 update, delete and
\* reassign each other and themselves; a request to change a role may come
\* without roleId.
ManagedUsers == { "admin", "user1" }

UsersRequest(r) ==
  \E tok \in Tokens(ManagedUsers), id \in ManagedUsers :
    \/ \E body \in UpdateUserBodies : PutUsersId(r, tok, id, body)
    \/ DeleteUsersId(r, tok, id)
    \/ \E roleId \in { "r_admin", "r_user", Null } : PutUsersIdRole(r, tok, id, ChangeRoleBody(roleId))

UsersStep(r) ==
  \/ updateUserFind(r)
  \/ updateUserSave(r)
  \/ UserStep(r)

NextUsers ==
  \/ OneAtATime /\ UsersRequest(1)
  \/ UsersStep(1)

SpecUsers == Init /\ [][NextUsers]_vars

\* Concurrent administration of roles: admin reassigns manager, deletes the
\* manager role and a visitor registers, the steps of the requests interleaving.
RoleRaceRequest(r) ==
  \/ \E tok \in Tokens({"admin"}) :
       \/ \E roleId \in { "r_user", "r_manager" } :
            PutUsersIdRole(r, tok, "manager", ChangeRoleBody(roleId))
       \/ DeleteRolesId(r, tok, "r_manager")
  \/ PostAuthRegister(r, Credentials("jane.smith@example.com", "User@123"))

RoleRaceStep(r) ==
  \/ changeUserRoleFindUser(r)
  \/ changeUserRoleFindRole(r)
  \/ changeUserRoleSave(r)
  \/ deleteRoleFind(r)
  \/ deleteRoleCount(r)
  \/ deleteRoleHook(r)
  \/ deleteRoleDeleteOne(r)
  \/ registerFindUser(r)
  \/ registerFindRole(r)
  \/ registerSave(r)
  \/ registerStoreToken(r)

NextRoleRace == \E r \in Slots : RoleRaceRequest(r) \/ RoleRaceStep(r)

SpecRoleRace == Init /\ [][NextRoleRace]_vars

\* Role updates and reassignments, one request at a time: admin may hand
\* roles:manage to the user role, user1 asks for users:delete on top of it, and
\* both reassign each other and themselves.
EscalationRequest(r) ==
  \/ \E tok \in Tokens({"admin"}) :
       PutRolesId(r, tok, "r_user", RoleBody(Null, { "roles:manage" }))
  \/ \E tok \in Tokens({"user1"}) :
       PutRolesId(r, tok, "r_user", RoleBody(Null, { "roles:manage", "users:delete" }))
  \/ \E tok \in Tokens(ManagedUsers), id \in ManagedUsers, roleId \in { "r_admin", "r_user" } :
       PutUsersIdRole(r, tok, id, ChangeRoleBody(roleId))

EscalationStep(r) ==
  \/ updateRoleFind(r)
  \/ updateRoleSave(r)
  \/ changeUserRoleFindUser(r)
  \/ changeUserRoleFindRole(r)
  \/ changeUserRoleSave(r)

NextEscalation ==
  \/ OneAtATime /\ EscalationRequest(1)
  \/ EscalationStep(1)

SpecEscalation == Init /\ [][NextEscalation]_vars

\* Sessions of user1, one request at a time, while time passes: login, refresh
\* and logout with the tokens user1 can hold; admin may deactivate user1.
AuthRequest(r) ==
  \/ \E password \in { "User@123", "wrong" } :
       PostAuthLogin(r, Credentials("user@example.com", password))
  \/ \E token \in RefreshTokenInputs \cup { NoToken } :
       \/ PostAuthRefresh(r, TokenBody(token))
       \/ PostAuthLogout(r, TokenBody(token))
  \/ PostAuthRefresh(r, TokenBody(AccessToken("user1")))
  \/ \E tok \in Tokens({"admin"}), isActive \in BOOLEAN :
       PutUsersId(r, tok, "user1", [ NoBody EXCEPT !.fields = { "isActive" }, !.isActive = isActive ])
  \/ \E tok \in BearerInputs("user1") : PutUsersId(r, tok, "user1", NoBody)

AuthStep(r) ==
  \/ loginFindUser(r)
  \/ loginSave(r)
  \/ loginStoreToken(r)
  \/ refreshFindToken(r)
  \/ refreshDeleteExpired(r)
  \/ refreshFindUser(r)
  \/ logout(r)
  \/ updateUserFind(r)
  \/ updateUserSave(r)

NextAuth ==
  \/ OneAtATime /\ AuthRequest(1)
  \/ AuthStep(1)
  \/ Tick
  \/ TtlMonitor

\* the documented setting of JWT_REFRESH_EXPIRES_IN, or one in years
InitAuth ==
  /\ users = SeedUsers
  /\ roles = SeedRoles
  /\ payments = << >>
  /\ nextPid = 1
  /\ nextRid = 1
  /\ nextUid = 1
  /\ refreshTokens = {}
  /\ loggedOut = {}
  /\ issuedTokens = {}
  /\ JWT_REFRESH_EXPIRES_IN \in { "7d", "1y" }
  /\ now = 0
  /\ reqs = [ r \in Slots |-> IdleReq ]

SpecAuth == InitAuth /\ [][NextAuth]_vars

\* Sessions of a new account, one request at a time: a visitor registers and
\* logs in again later, and the tokens received are sent to refresh and logout
\* while the clock advances.
SessionsRequest(r) ==
  \/ PostAuthRegister(r, Credentials("jane.smith@example.com", "Jane@123"))
  \/ PostAuthLogin(r, Credentials("jane.smith@example.com", "Jane@123"))
  \/ \E token \in issuedTokens :
       \/ PostAuthRefresh(r, TokenBody(token))
       \/ PostAuthLogout(r, TokenBody(token))

SessionsStep(r) ==
  \/ registerFindUser(r)
  \/ registerFindRole(r)
  \/ registerSave(r)
  \/ registerStoreToken(r)
  \/ loginFindUser(r)
  \/ loginSave(r)
  \/ loginStoreToken(r)
  \/ refreshFindToken(r)
  \/ refreshFindUser(r)
  \/ logout(r)

NextSessions ==
  \/ OneAtATime /\ SessionsRequest(1)
  \/ SessionsStep(1)
  \/ Tick
  \/ TtlMonitor

SpecSessions == Init /\ [][NextSessions]_vars

\* Concurrent requests that write email addresses: a visitor registers with an
\* address while user1 and user2 change their own address to that one or to
\* the admin's.
EmailsRequest(r) ==
  \/ PostAuthRegister(r, Credentials("jane.smith@example.com", "Jane@123"))
  \/ \E u \in { "user1", "user2" }, email \in { "jane.smith@example.com", "admin@example.com" } :
       PutUsersId(r, AccessToken(u), u, [ NoBody EXCEPT !.email = email ])

EmailsStep(r) ==
  \/ registerFindUser(r)
  \/ registerFindRole(r)
  \/ registerSave(r)
  \/ registerStoreToken(r)
  \/ updateUserFind(r)
  \/ updateUserSave(r)

NextEmails == \E r \in Slots : EmailsRequest(r) \/ EmailsStep(r)

SpecEmails == Init /\ [][NextEmails]_vars

\* The three gates of rbac.js applied to an authenticated caller: the caller's
\* permissions are those authenticate attached, the required permissions and
\* the owner of the resource are the gate's arguments.  A gate that calls
\* next() sends nothing.
GateCheck(r) ==
  /\ Free(r)
  /\ \E caller \in ManagedUsers, owner \in ManagedUsers,
        required \in SUBSET { "payments:read", "users:read" } :
       /\ authenticate(AccessToken(caller)).ok
       /\ LET held == PermissionsOf(caller)
              checked(gate, configured, g) ==
                reqs' = [ reqs EXCEPT ![r] =
                  [ IdleReq EXCEPT !.op = gate, !.authorization = AccessToken(caller),
                                   !.user = caller, !.permissions = held, !.id = owner,
                                   !.body = [ NoBody EXCEPT !.permissions = configured ],
                                   !.pc = "done", !.res = g.res ] ]
          IN \/ checked("requirePermissions", required, requirePermissions(held, required))
             \/ checked("requireAllPermissions", required, requireAllPermissions(held, required))
             \/ \E permission \in required :
                  checked("requireOwnershipOrPermission", { permission },
                          requireOwnershipOrPermission(owner, caller, held, permission))
  /\ UNCHANGED << users, roles, payments, nextPid, nextRid, now, refreshTokens, nextUid, loggedOut, issuedTokens, JWT_REFRESH_EXPIRES_IN >>

\* the user routes and the gates, one request at a time
NextChecks ==
  \/ NextUsers
  \/ OneAtATime /\ GateCheck(1)

SpecChecks == Init /\ [][NextChecks]_vars

\* Creation under interleaving: create requests of two callers in every
\* slot, with bodies that also carry a status and an owner, creations within
\* one millisecond of Date.now(), the random part of the identifier drawn
\* from RandomSuffixes so that two creations can draw the same identifier,
\* and approvals saved over the created payments.
ForgedCreateBody ==
  [ NoBody EXCEPT !.amount = 5000, !.status = PAYMENT_STATUS.COMPLETED, !.userId = "admin" ]

ForgedCreateBodies == { [ NoBody EXCEPT !.amount = 9999 ], ForgedCreateBody }

RandomSuffixes == { "K3J9X0Q2A", "7ZP41MMC8" }

CreationRequest(r) ==
  \E tok \in Tokens({"user1", "manager"}), body \in ForgedCreateBodies : PostPayments(r, tok, body)

CreationStep(r) == \E rnd \in RandomSuffixes : createPayment(r, rnd)

ApprovalRequest(r) == \E id \in PaymentIds : PutPaymentsIdApprove(r, AccessToken("manager"), id)

ApprovalStep(r) == approvePaymentFind(r) \/ approvePaymentSave(r)

NextCreation ==
  \/ \E r \in Slots : CreationRequest(r) \/ CreationStep(r)
  \/ OneAtATime /\ ApprovalRequest(1)
  \/ ApprovalStep(1)

SpecCreation == Init /\ [][NextCreation]_vars

\* The profile routes and the three gates, one request at a time, with admin
\* able to empty the permission set of the user role.
ProfilesRequest(r) ==
  \/ \E tok \in Tokens(ManagedUsers), id \in ManagedUsers : GetUsersId(r, tok, id)
  \/ PutRolesId(r, AccessToken("admin"), "r_user", RoleBody(Null, {}))

ProfilesStep(r) == getUserById(r) \/ updateRoleFind(r) \/ updateRoleSave(r)

NextProfiles ==
  \/ NextChecks
  \/ OneAtATime /\ ProfilesRequest(1)
  \/ ProfilesStep(1)

SpecProfiles == Init /\ [][NextProfiles]_vars

\* Requests of user1 with one access token, interleaved with admin changing
\* user1's role and the permission set of the user role.
SnapshotRequest(r) ==
  \/ /\ r = 1
     /\ \/ GetUsersId(r, AccessToken("user1"), "admin")
        \/ PutUsersId(r, AccessToken("user1"), "admin", [ NoBody EXCEPT !.email = "new@example.com" ])
        \/ GetRoles(r, AccessToken("user1"))
  \/ /\ r = 2
     /\ \/ \E roleId \in { "r_admin", "r_user" } :
             PutUsersIdRole(r, AccessToken("admin"), "user1", ChangeRoleBody(roleId))
        \/ \E permissions \in { {}, { "users:read" } } :
             PutRolesId(r, AccessToken("admin"), "r_user", RoleBody(Null, permissions))

SnapshotStep(r) ==
  \/ getUserById(r)
  \/ updateUserFind(r)
  \/ updateUserSave(r)
  \/ getAllRoles(r)
  \/ changeUserRoleFindUser(r)
  \/ changeUserRoleFindRole(r)
  \/ changeUserRoleSave(r)
  \/ updateRoleFind(r)
  \/ updateRoleSave(r)

NextSnapshot == \E r \in Slots : SnapshotRequest(r) \/ SnapshotStep(r)

SpecSnapshot == Init /\ [][NextSnapshot]_vars

\* Requests on payment, user and role routes with every kind of bearer
\* value of user1 and admin, one at a time, while admin deactivates,
\* reactivates and deletes user1.
RejectedRequest(r) ==
  \/ \E tok \in BearerInputs("user1") \cup BearerInputs("admin") :
       \/ PostPayments(r, tok, [ NoBody EXCEPT !.amount = 9999 ])
       \/ PutUsersId(r, tok, tok.sub, [ NoBody EXCEPT !.email = "new@example.com" ])
       \/ PutRolesId(r, tok, "r_manager", RoleBody(Null, {}))
  \/ \E isActive \in BOOLEAN :
       PutUsersId(r, AccessToken("admin"), "user1",
                  [ NoBody EXCEPT !.fields = { "isActive" }, !.isActive = isActive ])
  \/ DeleteUsersId(r, AccessToken("admin"), "user1")

RejectedStep(r) ==
  \/ \E rnd \in FreshSuffixes : createPayment(r, rnd)
  \/ updateUserFind(r)
  \/ updateUserSave(r)
  \/ updateRoleFind(r)
  \/ updateRoleSave(r)
  \/ deleteUserFind(r)
  \/ deleteUserDeleteOne(r)

NextRejected ==
  \/ OneAtATime /\ RejectedRequest(1)
  \/ RejectedStep(1)

SpecRejected == Init /\ [][NextRejected]_vars

\* user1 logs in, refreshes and updates their profile with the credentials
\* they were issued, one request at a time, and admin deletes user1.
DeletedRequest(r) ==
  \/ PostAuthLogin(r, Credentials("user@example.com", "User@123"))
  \/ \E token \in issuedTokens : PostAuthRefresh(r, TokenBody(token))
  \/ PutUsersId(r, AccessToken("user1"), "user1", [ NoBody EXCEPT !.email = "new@example.com" ])
  \/ DeleteUsersId(r, AccessToken("admin"), "user1")

DeletedStep(r) ==
  \/ loginFindUser(r)
  \/ loginSave(r)
  \/ loginStoreToken(r)
  \/ refreshFindToken(r)
  \/ refreshFindUser(r)
  \/ updateUserFind(r)
  \/ updateUserSave(r)
  \/ deleteUserFind(r)
  \/ deleteUserDeleteOne(r)

NextDeleted ==
  \/ OneAtATime /\ DeletedRequest(1)
  \/ DeletedStep(1)
  \/ Tick

SpecDeleted == Init /\ [][NextDeleted]_vars

\* Logins with a known and an unknown email and a right and a wrong
\* password, one at a time, while admin deactivates and reactivates user1.
LoginsRequest(r) ==
  \/ \E email \in { "user@example.com", "nobody@example.com" }, password \in { "User@123", "wrong" } :
       PostAuthLogin(r, Credentials(email, password))
  \/ \E isActive \in BOOLEAN :
       PutUsersId(r, AccessToken("admin"), "user1",
                  [ NoBody EXCEPT !.fields = { "isActive" }, !.isActive = isActive ])

LoginsStep(r) ==
  \/ loginFindUser(r)
  \/ loginSave(r)
  \/ loginStoreToken(r)
  \/ updateUserFind(r)
  \/ updateUserSave(r)

NextLogins ==
  \/ OneAtATime /\ LoginsRequest(1)
  \/ LoginsStep(1)
  \/ Tick

SpecLogins == Init /\ [][NextLogins]_vars

\* ================================================================== claims
TransitionOps == { "approvePayment", "rejectPayment", "processPayment" }

SourceStatus(op) ==
  IF op = "processPayment" THEN PAYMENT_STATUS.APPROVED ELSE PAYMENT_STATUS.PENDING

Verb(op) ==
  CASE op = "approvePayment" -> "approved"
    [] op = "rejectPayment"  -> "rejected"
    [] op = "processPayment" -> "processed"

LegalEdges ==
  { << "pending", "approved" >>, << "pending", "rejected" >>,
    << "approved", "processing" >>,
    << "processing", "completed" >>, << "processing", "failed" >> }

TerminalStatuses == { "completed", "failed", "rejected" }

\* C1: with requests executed one at a time, every payment is created pending,
\* its status is always one of the six enumerated values, and every change of a
\* persisted status is one of the five edges of the state machine.
C1_LegalTransitions ==
  [][ /\ \A p \in DOMAIN payments' : payments'[p].status \in StatusValues
      /\ \A p \in DOMAIN payments' \ DOMAIN payments :
           payments'[p].status = PAYMENT_STATUS.PENDING
      /\ \A p \in DOMAIN payments' \cap DOMAIN payments :
           payments'[p].status # payments[p].status
             => << payments[p].status, payments'[p].status >> \in LegalEdges ]_vars

C1_Witness ==
  /\ DOMAIN payments = {1, 2}
  /\ payments[1].status = "rejected"
  /\ payments[2].status = "failed"

\* C2: approve and reject go ahead only from pending and process only from
\* approved; from any other status the handler answers 400 with a message that
\* names the current status and the payment collection is left as it was.
C2_IllegalTransitionRefused ==
  [][ \A r \in Slots :
        ( /\ reqs[r].op \in TransitionOps
          /\ reqs[r].pc = "ctrl"
          /\ reqs'[r].pc \in {"save", "done"}
          /\ reqs[r].id \in DOMAIN payments )
        => IF payments[reqs[r].id].status = SourceStatus(reqs[r].op)
             THEN reqs'[r].pc = "save"
             ELSE /\ reqs'[r].pc = "done"
                  /\ reqs'[r].res.code = HTTP_STATUS.BAD_REQUEST
                  /\ reqs'[r].res.message =
                       "Payment cannot be " \o Verb(reqs[r].op) \o ". Current status: "
                         \o payments[reqs[r].id].status
                  /\ payments' = payments ]_vars

C2_Witness ==
  /\ reqs[1].op = "processPayment"
  /\ reqs[1].pc = "done"
  /\ reqs[1].res.code = HTTP_STATUS.BAD_REQUEST
  /\ reqs[1].res.message = "Payment cannot be processed. Current status: pending"
  /\ payments[reqs[1].id].status = "pending"

\* C3: a processPayment call that passed its status check has marked the payment
\* processing with the caller as processor, and when it has answered the payment
\* is completed or failed (never approved or pending), with processedBy the
\* caller and processedAt set.
PassedStatusCheck(r) ==
  /\ reqs[r].op = "processPayment"
  /\ \/ reqs[r].pc \in {"save", "save2"}
     \/ /\ reqs[r].pc = "done"
        /\ reqs[r].res.code \notin { HTTP_STATUS.UNAUTHORIZED, HTTP_STATUS.FORBIDDEN,
                                     HTTP_STATUS.NOT_FOUND, HTTP_STATUS.BAD_REQUEST }

C3_ProcessEndsTerminal ==
  \A r \in Slots :
    PassedStatusCheck(r) =>
      /\ reqs[r].id \in DOMAIN payments
      /\ LET p == payments[reqs[r].id] IN
           /\ reqs[r].pc = "save" => p.status = "approved"
           /\ reqs[r].pc = "save2" =>
                p.status = "processing" /\ p.processedBy = reqs[r].user /\ p.processedAt # NoDate
           /\ reqs[r].pc = "done" =>
                /\ reqs[r].res.code = HTTP_STATUS.OK
                /\ p.status \in {"completed", "failed"}
                /\ p.status = reqs[r].res.data.payment.status
                /\ p.processedBy = reqs[r].user
                /\ p.processedAt # NoDate

C3_Witness ==
  /\ reqs[1].op = "processPayment"
  /\ reqs[1].pc = "done"
  /\ reqs[1].res.code = HTTP_STATUS.OK
  /\ reqs[1].user = "admin"
  /\ payments[reqs[1].id].status = "failed"
  /\ payments[reqs[1].id].approvedBy = "manager"

\* C4: a payment left in processing by a processPayment call that stopped
\* between its two writes never changes and is never removed: every later
\* approve, reject, process and delete request on it is refused with 400.
Stuck(p) ==
  /\ p \in DOMAIN payments
  /\ payments[p].status = PAYMENT_STATUS.PROCESSING
  /\ \A r \in Slots : ~(reqs[r].op = "processPayment" /\ reqs[r].pc = "save2" /\ reqs[r].id = p)

C4_StuckInProcessing ==
  [][ \A p \in PaymentIds : Stuck(p) =>
        /\ p \in DOMAIN payments'
        /\ payments'[p] = payments[p]
        /\ \A r \in Slots :
             ( /\ reqs[r].pc = "ctrl"
               /\ reqs[r].op \in TransitionOps \cup {"deletePayment"}
               /\ reqs[r].id = p
               /\ reqs'[r].pc # "ctrl"
               /\ InFlight(r)' \/ reqs'[r].pc = "done" )
             => /\ reqs'[r].pc = "done"
                /\ reqs'[r].res.code = HTTP_STATUS.BAD_REQUEST ]_vars

C4_Witness ==
  /\ Stuck(1)
  /\ reqs[1].op = "deletePayment"
  /\ reqs[1].id = 1
  /\ reqs[1].pc = "done"
  /\ reqs[1].res.code = HTTP_STATUS.BAD_REQUEST

\* C5: under any interleaving of approve, reject and process requests, a
\* persisted status of completed, failed or rejected never changes again.
C5_TerminalIsFinal ==
  [][ \A p \in DOMAIN payments \cap DOMAIN payments' :
        payments[p].status \in TerminalStatuses
          => payments'[p].status = payments[p].status ]_vars

\* the permission each gated operation requires
RequiredPermission(op) ==
  CASE op = "createPayment"  -> "payments:create"
    [] op = "approvePayment" -> "payments:approve"
    [] op = "rejectPayment"  -> "payments:approve"
    [] op = "processPayment" -> "payments:process"
    [] op = "deletePayment"  -> "payments:delete"
    [] op = "deleteUser"     -> "users:delete"
    [] op = "changeUserRole" -> "users:write"
    [] op \in { "getAllRoles", "getRoleById", "createRole", "updateRole", "deleteRole" }
                             -> "roles:manage"

GatedOps ==
  { "createPayment", "approvePayment", "rejectPayment", "processPayment", "deletePayment",
    "deleteUser", "changeUserRole",
    "getAllRoles", "getRoleById", "createRole", "updateRole", "deleteRole" }

\* the permissions of the role the user references in the database
ResolvedPermissions(u) ==
  IF u \in DOMAIN users /\ users[u].role \in DOMAIN roles
    THEN roles[users[u].role].permissions ELSE {}

\* a request arrives in slot r: the slot held no request, or an answered one
Arrives(r) == Free(r) /\ reqs'[r] # reqs[r] /\ reqs'[r].pc # "idle"

\* C6: an authenticated request on a gated operation is let through to the
\* operation's validator and controller iff the caller's resolved permission
\* set contains the operation's required permission; otherwise it is answered
\* 403 Forbidden; and users, roles and payments change only in a step of a
\* request whose caller holds the required permission.
C6_GateIffPermission ==
  [][ /\ \A r \in Slots :
           ( /\ Arrives(r)
             /\ reqs'[r].op \in GatedOps
             /\ reqs'[r].user # Null )
           => IF RequiredPermission(reqs'[r].op) \in ResolvedPermissions(reqs'[r].user)
                THEN \/ reqs'[r].pc = "ctrl"
                     \/ /\ reqs'[r].pc = "done"
                        /\ reqs'[r].res.code = HTTP_STATUS.BAD_REQUEST
                ELSE /\ reqs'[r].pc = "done"
                     /\ reqs'[r].res.code = HTTP_STATUS.FORBIDDEN
      /\ << users, roles, payments >>' # << users, roles, payments >>
           => \E r \in Slots :
                /\ InFlight(r)
                /\ reqs'[r] # reqs[r]
                /\ reqs[r].op \in GatedOps
                /\ RequiredPermission(reqs[r].op) \in reqs[r].permissions ]_vars

\* user1, lacking roles:manage, is refused the deletion of the manager role
\* that admin carried out after moving manager to another role and deleting user2
C6_Witness ==
  /\ "user2" \notin DOMAIN users
  /\ "r_manager" \notin DOMAIN roles
  /\ reqs[1].op = "deleteRole"
  /\ reqs[1].user = "user1"
  /\ reqs[1].pc = "done"
  /\ reqs[1].res.code = HTTP_STATUS.FORBIDDEN
  /\ 1 \in DOMAIN payments
  /\ payments[1].status = "completed"

\* the permissions of the default user role
DefaultUserPermissions == { "payments:create", "payments:read" }

\* C7: a caller holding exactly the permissions of the default user role who
\* lists payments with no filter receives only payments they own.
C7_ListScopedToOwn ==
  [][ \A r \in Slots :
        ( /\ reqs[r].op = "getAllPayments"
          /\ reqs[r].pc = "ctrl"
          /\ reqs'[r].pc = "done"
          /\ reqs[r].permissions = DefaultUserPermissions
          /\ reqs[r].body.userId = Null
          /\ reqs[r].body.status = Null )
        => \A item \in reqs'[r].res.data : item.user = reqs[r].user ]_vars

ReadById(r) == reqs[r].op = "getPaymentById" /\ reqs[r].pc = "done"

\* C8: user2, holding the default user role, does not get a payment owned by
\* user1 by id, while manager does.
C8_NonOwnerUserCannotRead ==
  \A r \in Slots :
    ( /\ ReadById(r)
      /\ reqs[r].id \in DOMAIN payments
      /\ payments[reqs[r].id].user = "user1"
      /\ "user1" \in DOMAIN users )
    => /\ ( reqs[r].user = "user2" /\ reqs[r].permissions = DefaultUserPermissions )
            => reqs[r].res.code # HTTP_STATUS.OK
       /\ reqs[r].user = "manager" => reqs[r].res.code = HTTP_STATUS.OK

\* C9: the owner of a payment reads it by id although the owner's permission
\* set does not contain payments:read.
C9_OwnerReadsWithoutReadPermission ==
  \A r \in Slots :
    ( /\ ReadById(r)
      /\ reqs[r].user # Null
      /\ reqs[r].id \in DOMAIN payments
      /\ payments[reqs[r].id].user = reqs[r].user
      /\ "payments:read" \notin reqs[r].permissions )
    => reqs[r].res.code = HTTP_STATUS.OK

\* C10: a get-by-id request for an existing payment by a caller who is not the
\* owner and lacks payments:read is answered 403, and one by a caller holding
\* payments:read succeeds whoever the owner is.
C10_ReadByIdScenario ==
  \A r \in Slots :
    ( ReadById(r) /\ reqs[r].user # Null /\ reqs[r].id \in DOMAIN payments )
    => /\ ( /\ payments[reqs[r].id].user # reqs[r].user
            /\ "payments:read" \notin reqs[r].permissions )
            => reqs[r].res.code = HTTP_STATUS.FORBIDDEN
       /\ "payments:read" \in reqs[r].permissions => reqs[r].res.code = HTTP_STATUS.OK

UndeletableStatuses == { "processing", "completed" }

\* C11: with requests executed one at a time, an admitted deletePayment on a
\* payment that is processing or completed is answered 400 and leaves the
\* payment as it was; on a payment in any other status it goes on to the
\* removal, which removes that payment and answers 200; and a payment is only
\* ever removed in a status other than processing and completed.
C11_DeleteByStatus ==
  [][ /\ \A r \in Slots :
           ( /\ reqs[r].op = "deletePayment"
             /\ reqs[r].pc = "ctrl"
             /\ reqs'[r].pc \notin { "ctrl", "idle" }
             /\ reqs[r].id \in DOMAIN payments )
           => IF payments[reqs[r].id].status \in UndeletableStatuses
                THEN /\ reqs'[r].pc = "done"
                     /\ reqs'[r].res.code = HTTP_STATUS.BAD_REQUEST
                     /\ payments' = payments
                ELSE reqs'[r].pc = "delete" /\ payments' = payments
      /\ \A r \in Slots :
           ( /\ reqs[r].op = "deletePayment"
             /\ reqs[r].pc = "delete"
             /\ reqs'[r].pc # "idle"
             /\ reqs'[r] # reqs[r] )
           => /\ reqs'[r].pc = "done"
              /\ reqs'[r].res.code = HTTP_STATUS.OK
              /\ reqs[r].id \notin DOMAIN payments'
      /\ \A p \in DOMAIN payments \ DOMAIN payments' :
           payments[p].status \notin UndeletableStatuses ]_vars

C11_Witness ==
  /\ reqs[1].op = "deletePayment"
  /\ reqs[1].pc = "done"
  /\ reqs[1].id = 1
  /\ reqs[1].res.code = HTTP_STATUS.OK
  /\ DOMAIN payments = { 2 }
  /\ payments[2].status = "completed"

\* C12: under any interleaving of deletePayment and processPayment requests on
\* one payment, a payment is never removed while its persisted status is
\* processing or completed.
C12_NeverRemovedWhileProcessing ==
  [][ \A p \in DOMAIN payments \ DOMAIN payments' :
        payments[p].status \notin UndeletableStatuses ]_vars

SelfProtectedOps == { "deleteUser", "changeUserRole" }

\* a request of an authenticated caller to delete or reassign themselves
SelfTargeted(q) == q.op \in SelfProtectedOps /\ q.user # Null /\ q.id = q.user

SelfProtectionMessage(op) ==
  IF op = "deleteUser" THEN "You cannot delete your own account"
                       ELSE "You cannot change your own role"

GateMessage == "You do not have permission to perform this action"

C15_OwnActiveStatus ==
  [][ /\ \A r \in Slots :
           ( /\ reqs[r].op = "updateUser"
             /\ reqs[r].user = reqs[r].id
             /\ reqs'[r] # reqs[r]
             /\ reqs[r].pc \in { "ctrl", "save" } )
           => /\ \A u \in DOMAIN users \cap DOMAIN users' :
                   u = reqs[r].id => users'[u].isActive = users[u].isActive
              /\ ( reqs[r].pc = "ctrl" /\ "isActive" \in reqs[r].body.fields )
                   => /\ reqs'[r].pc = "done"
                      /\ reqs'[r].res.code = HTTP_STATUS.FORBIDDEN
                      /\ users' = users
      /\ \A u \in DOMAIN users \cap DOMAIN users' :
           users'[u].isActive # users[u].isActive
             => \E r \in Slots :
                  /\ reqs[r].op = "updateUser"
                  /\ reqs[r].pc = "save"
                  /\ reqs[r].id = u
                  /\ reqs[r].user # u
                  /\ "users:write" \in reqs[r].permissions ]_vars

\* admin, having deactivated user1, is refused a change of their own isActive
C15_Witness ==
  /\ "user1" \in DOMAIN users
  /\ ~users["user1"].isActive
  /\ reqs[1].op = "updateUser"
  /\ reqs[1].user = "admin"
  /\ reqs[1].id = "admin"
  /\ reqs[1].pc = "done"
  /\ reqs[1].res.code = HTTP_STATUS.FORBIDDEN
  /\ reqs[1].res.message = "You cannot change your own active status"

\* the number of users whose role reference is x
ReferenceCount(x) == Cardinality({ u \in DOMAIN users : users[u].role = x })

\* C16: with requests executed one at a time, a deleteRole request on an
\* existing role that some user references is answered 400 and leaves the roles
\* as they were; on a role that no user references it goes on to remove the
\* role and answers 200; a role is only ever removed with no user referencing it.
C16_DeleteRoleByReferences ==
  [][ /\ \A r \in Slots :
           ( /\ reqs[r].op = "deleteRole"
             /\ reqs[r].pc \in { "count", "hook", "delete" }
             /\ reqs'[r] # reqs[r] )
           => IF ReferenceCount(reqs[r].id) > 0
                THEN /\ reqs[r].pc = "count"
                     /\ reqs'[r].pc = "done"
                     /\ reqs'[r].res.code = HTTP_STATUS.BAD_REQUEST
                     /\ roles' = roles
                ELSE CASE reqs[r].pc = "count" -> reqs'[r].pc = "hook" /\ roles' = roles
                       [] reqs[r].pc = "hook"  -> reqs'[r].pc = "delete" /\ roles' = roles
                       [] reqs[r].pc = "delete" ->
                            /\ reqs'[r].pc = "done"
                            /\ reqs'[r].res.code = HTTP_STATUS.OK
                            /\ reqs[r].id \notin DOMAIN roles'
      /\ \A x \in DOMAIN roles \ DOMAIN roles' : ReferenceCount(x) = 0 ]_vars

\* the manager role, refused while manager held it, is removed after manager
\* was moved to the user role
C16_Witness ==
  /\ "r_manager" \notin DOMAIN roles
  /\ "manager" \in DOMAIN users
  /\ users["manager"].role = "r_user"
  /\ reqs[1].op = "deleteRole"
  /\ reqs[1].id = "r_manager"
  /\ reqs[1].pc = "done"
  /\ reqs[1].res.code = HTTP_STATUS.OK

\* C17: under any interleaving of deleteRole, register and changeUserRole
\* requests, every user references a role that exists, and a role is removed
\* only at a moment when no user references it.
C17_NoDanglingRoleReference ==
  [][ /\ \A u \in DOMAIN users' : users'[u].role \in DOMAIN roles'
      /\ \A x \in DOMAIN roles \ DOMAIN roles' : ReferenceCount(x) = 0 ]_vars

\* C18: no step of a request adds a permission to the effective permission set
\* of the caller who sent it.
C18_NoSelfEscalation ==
  [][ \A r \in Slots :
        ( InFlight(r) /\ reqs[r].user # Null /\ reqs'[r] # reqs[r] )
        => ResolvedPermissions(reqs[r].user)' \subseteq ResolvedPermissions(reqs[r].user) ]_vars

\* the persisted records holding the token value
StoredTokens(token) == { t \in refreshTokens : t.token = token }

\* C19: a refresh call with a token whose record is stored and has not expired,
\* for an active user, passes the token check, answers 200 with an access token
\* and leaves the refresh records as they are; a refresh call with a token
\* whose stored record has expired is answered 401 and removes the record.
C19_RefreshUntilExpiry ==
  [][ \A r \in Slots :
        ( reqs[r].op = "refresh" /\ reqs[r].pc \in { "ctrl", "findUser", "expire" }
          /\ reqs'[r] # reqs[r] )
        => LET token == reqs[r].body.refreshToken IN
             /\ ( /\ \E t \in StoredTokens(token) : ~isExpired(t)
                  /\ token.sub \in DOMAIN users
                  /\ users[token.sub].isActive )
                => /\ refreshTokens' = refreshTokens
                   /\ reqs[r].pc = "ctrl" => reqs'[r].pc = "findUser"
                   /\ reqs[r].pc = "findUser" =>
                        /\ reqs'[r].pc = "done"
                        /\ reqs'[r].res.code = HTTP_STATUS.OK
             /\ ( \E t \in StoredTokens(token) : isExpired(t) )
                => /\ reqs[r].pc = "ctrl" => reqs'[r].pc = "expire"
                   /\ reqs[r].pc = "expire" =>
                        /\ reqs'[r].pc = "done"
                        /\ reqs'[r].res.code = HTTP_STATUS.UNAUTHORIZED
                        /\ StoredTokens(token)' = {} ]_vars

\* C20: a logout call answers 200 and removes exactly the records holding the
\* token it was called with (none when no token was supplied or none matches);
\* every refresh call that ends after a logout with its token has completed is
\* answered 401.
C20_LogoutInvalidates ==
  [][ \A r \in Slots :
        /\ ( reqs[r].op = "logout" /\ reqs[r].pc = "ctrl" /\ reqs'[r] # reqs[r] )
           => /\ reqs'[r].pc = "done"
              /\ reqs'[r].res.code = HTTP_STATUS.OK
              /\ refreshTokens' = refreshTokens \ StoredTokens(reqs[r].body.refreshToken)
        /\ ( /\ reqs[r].op = "refresh"
             /\ InFlight(r)
             /\ reqs'[r].pc = "done"
             /\ reqs[r].body.refreshToken \in loggedOut )
           => reqs'[r].res.code = HTTP_STATUS.UNAUTHORIZED ]_vars

\* C21: a successful login or registration adds one refresh record and keeps
\* every earlier one; logout removes the records of the token it was called
\* with and no other; and after a logout with one token of a user, a refresh
\* call with another token of that user that has not expired, neither the
\* token nor its stored record (the user being active), passes the token check
\* and is answered 200.
C21_IndependentCredentials ==
  [][ \A r \in Slots :
        /\ ( /\ reqs[r].op \in { "login", "register" }
             /\ reqs[r].pc = "token"
             /\ reqs'[r].pc = "done"
             /\ reqs'[r].res.code \in { HTTP_STATUS.OK, HTTP_STATUS.CREATED } )
           => /\ refreshTokens \subseteq refreshTokens'
              /\ Cardinality(refreshTokens') = Cardinality(refreshTokens) + 1
        /\ ( reqs[r].op = "logout" /\ reqs[r].pc = "ctrl" /\ reqs'[r] # reqs[r] )
           => refreshTokens' = refreshTokens \ StoredTokens(reqs[r].body.refreshToken)
        /\ ( /\ reqs[r].op = "refresh"
             /\ reqs[r].pc \in { "ctrl", "findUser" }
             /\ reqs'[r] # reqs[r]
             /\ verifyRefreshToken(reqs[r].body.refreshToken) = "ok"
             /\ \E t \in StoredTokens(reqs[r].body.refreshToken) : ~isExpired(t)
             /\ reqs[r].body.refreshToken.sub \in DOMAIN users
             /\ users[reqs[r].body.refreshToken.sub].isActive
             /\ \E other \in loggedOut :
                  /\ other # reqs[r].body.refreshToken
                  /\ other.sub = reqs[r].body.refreshToken.sub )
           => /\ reqs[r].pc = "ctrl" => reqs'[r].pc = "findUser"
              /\ reqs[r].pc = "findUser" =>
                   /\ reqs'[r].pc = "done"
                   /\ reqs'[r].res.code = HTTP_STATUS.OK ]_vars

\* two logins and a logout with one of the two tokens have completed, and a
\* refresh call with the other token has passed the token check
C21_Witness ==
  \E r \in Slots :
    /\ reqs[r].op = "refresh"
    /\ reqs[r].pc = "findUser"
    /\ StoredTokens(reqs[r].body.refreshToken) # {}
    /\ users[reqs[r].body.refreshToken.sub].isActive
    /\ \E other \in loggedOut :
         /\ other # reqs[r].body.refreshToken
         /\ other.sub = reqs[r].body.refreshToken.sub
         /\ StoredTokens(other) = {}

\* the routes that do not run authenticate
PublicOps == { "register", "login", "refresh", "logout" }

\* what is wrong with the bearer token authenticate is given, as jwt.verify
\* sees it: the signature is checked before the expiry
AuthenticateFailure(tok) ==
  IF tok.kind = "none" THEN "none"
  ELSE IF tok.kind # "access" THEN "Invalid"
  ELSE IF tok.expired THEN "Expired"
  ELSE "none"

\* what is wrong with the refresh token refresh is given: the signature, then
\* the persisted record
RefreshFailure(token) ==
  IF verifyRefreshToken(token) = "JsonWebTokenError" THEN "Invalid"
  ELSE IF verifyRefreshToken(token) = "TokenExpiredError" THEN "Expired"
  ELSE IF StoredTokens(token) = {} THEN "RecordMissing"
  ELSE IF \E t \in StoredTokens(token) : isExpired(t) THEN "RecordExpired"
  ELSE "none"

\* the failures a message is sent for, from the catch blocks of authenticate
\* and refresh and the record checks of refresh
OutcomeKinds(message) ==
  CASE message = "Invalid token" -> { "Invalid" }
    [] message = "Token expired" -> { "Expired" }
    [] message = "Invalid or expired refresh token" -> { "Invalid", "Expired" }
    [] message = "Invalid refresh token" -> { "RecordMissing" }
    [] message = "Refresh token expired" -> { "RecordExpired" }
    [] OTHER -> {}

\* the step that admits a request to a route behind authenticate
Authenticated(r) ==
  /\ Free(r)
  /\ reqs'[r] # reqs[r]
  /\ reqs'[r].op \notin PublicOps \cup { "none" }

\* C22 as stated: authenticate and refresh answer an invalid token and an
\* expired token with 401 and a message that names that failure and no other,
\* and refresh answers a missing or expired record with 401 and a message that
\* is not one sent for an expired signature.
C22_DistinguishableFailures ==
  [][ \A r \in Slots :
        /\ ( Authenticated(r) /\ AuthenticateFailure(reqs'[r].authorization) # "none" )
           => /\ reqs'[r].pc = "done"
              /\ reqs'[r].res.code = HTTP_STATUS.UNAUTHORIZED
              /\ OutcomeKinds(reqs'[r].res.message)
                   = { AuthenticateFailure(reqs'[r].authorization) }
        /\ ( reqs[r].op = "refresh" /\ reqs[r].pc \in { "ctrl", "expire" } /\ reqs'[r] # reqs[r] )
           => LET failure == RefreshFailure(reqs[r].body.refreshToken) IN
                /\ ( reqs[r].pc = "ctrl" /\ failure \in { "Invalid", "Expired" } )
                   => /\ reqs'[r].pc = "done"
                      /\ reqs'[r].res.code = HTTP_STATUS.UNAUTHORIZED
                      /\ OutcomeKinds(reqs'[r].res.message) = { failure }
                /\ ( reqs[r].pc = "ctrl" /\ failure = "RecordMissing" )
                   => /\ reqs'[r].pc = "done"
                      /\ reqs'[r].res.code = HTTP_STATUS.UNAUTHORIZED
                      /\ "Expired" \notin OutcomeKinds(reqs'[r].res.message)
                /\ ( reqs[r].pc = "ctrl" /\ failure = "RecordExpired" )
                   => reqs'[r].pc = "expire"
                /\ reqs[r].pc = "expire"
                   => /\ reqs'[r].pc = "done"
                      /\ reqs'[r].res.code = HTTP_STATUS.UNAUTHORIZED
                      /\ "Expired" \notin OutcomeKinds(reqs'[r].res.message) ]_vars

\* C22 (amended): authenticate answers an invalid token and an expired token
\* with 401 and a message of its own each; refresh answers both with 401 and
\* one message sent for either; and refresh answers a missing or expired record
\* with 401 and a message that is not one sent for an expired signature.
C22_RefreshMergesSignatureFailures ==
  [][ \A r \in Slots :
        /\ ( Authenticated(r) /\ AuthenticateFailure(reqs'[r].authorization) # "none" )
           => /\ reqs'[r].pc = "done"
              /\ reqs'[r].res.code = HTTP_STATUS.UNAUTHORIZED
              /\ OutcomeKinds(reqs'[r].res.message)
                   = { AuthenticateFailure(reqs'[r].authorization) }
        /\ ( reqs[r].op = "refresh" /\ reqs[r].pc \in { "ctrl", "expire" } /\ reqs'[r] # reqs[r] )
           => LET failure == RefreshFailure(reqs[r].body.refreshToken) IN
                /\ ( reqs[r].pc = "ctrl" /\ failure \in { "Invalid", "Expired" } )
                   => /\ reqs'[r].pc = "done"
                      /\ reqs'[r].res.code = HTTP_STATUS.UNAUTHORIZED
                      /\ OutcomeKinds(reqs'[r].res.message) = { "Invalid", "Expired" }
                /\ ( reqs[r].pc = "ctrl" /\ failure = "RecordMissing" )
                   => /\ reqs'[r].pc = "done"
                      /\ reqs'[r].res.code = HTTP_STATUS.UNAUTHORIZED
                      /\ "Expired" \notin OutcomeKinds(reqs'[r].res.message)
                /\ ( reqs[r].pc = "ctrl" /\ failure = "RecordExpired" )
                   => reqs'[r].pc = "expire"
                /\ reqs[r].pc = "expire"
                   => /\ reqs'[r].pc = "done"
                      /\ reqs'[r].res.code = HTTP_STATUS.UNAUTHORIZED
                      /\ "Expired" \notin OutcomeKinds(reqs'[r].res.message) ]_vars

\* a request with an expired access token has been answered
C22_Witness ==
  \E r \in Slots :
    /\ reqs[r].pc = "done"
    /\ reqs[r].op = "updateUser"
    /\ reqs[r].authorization.kind = "access"
    /\ reqs[r].authorization.expired
    /\ reqs[r].res.code = HTTP_STATUS.UNAUTHORIZED
    /\ reqs[r].res.message = "Token expired"

\* C23: authenticate lets a request pass only with an access token that
\* verifies, and answers a refresh token with 401; refresh goes on to issue an
\* access token only for a refresh token that verifies and has a stored record,
\* and answers an access token with 401.
C23_TokenKindsNotInterchangeable ==
  [][ \A r \in Slots :
        /\ ( Authenticated(r) /\ reqs'[r].user # Null )
           => /\ reqs'[r].authorization.kind = "access"
              /\ ~reqs'[r].authorization.expired
        /\ ( Authenticated(r) /\ reqs'[r].authorization.kind = "refresh" )
           => /\ reqs'[r].pc = "done"
              /\ reqs'[r].res.code = HTTP_STATUS.UNAUTHORIZED
        /\ ( reqs[r].op = "refresh" /\ reqs[r].pc = "ctrl" /\ reqs'[r] # reqs[r] )
           => /\ reqs'[r].pc # "done"
                   => /\ reqs[r].body.refreshToken.kind = "refresh"
                      /\ verifyRefreshToken(reqs[r].body.refreshToken) = "ok"
                      /\ StoredTokens(reqs[r].body.refreshToken) # {}
              /\ reqs[r].body.refreshToken.kind = "access"
                   => /\ reqs'[r].pc = "done"
                      /\ reqs'[r].res.code = HTTP_STATUS.UNAUTHORIZED
        /\ ( reqs[r].op = "refresh" /\ reqs'[r].pc = "done" /\ reqs[r].pc # "done"
             /\ reqs'[r].res.code = HTTP_STATUS.OK )
           => reqs[r].pc = "findUser" ]_vars

\* a request that carried a refresh token of an active user as its bearer token
\* has been answered
C23_Witness ==
  \E r \in Slots :
    /\ reqs[r].pc = "done"
    /\ reqs[r].op = "updateUser"
    /\ reqs[r].authorization.kind = "refresh"
    /\ reqs[r].authorization \in issuedTokens
    /\ users[reqs[r].authorization.sub].isActive
    /\ reqs[r].res.code = HTTP_STATUS.UNAUTHORIZED

\* C24: a request that carries an unexpired access token of a user whose
\* isActive is false is answered 403 by authenticate; a login for such a user
\* is answered 403; a refresh with a token of such a user is not answered 200;
\* and no login, refresh or authenticated request is answered with success
\* while its user's isActive is false.
C24_InactiveUserLockedOut ==
  [][ \A r \in Slots :
        /\ ( /\ Authenticated(r)
             /\ reqs'[r].authorization.kind = "access"
             /\ ~reqs'[r].authorization.expired
             /\ reqs'[r].authorization.sub \in DOMAIN users
             /\ ~users[reqs'[r].authorization.sub].isActive )
           => /\ reqs'[r].pc = "done"
              /\ reqs'[r].res.code = HTTP_STATUS.FORBIDDEN
        /\ ( /\ reqs[r].op = "login"
             /\ reqs[r].pc = "ctrl"
             /\ reqs'[r] # reqs[r]
             /\ \E u \in DOMAIN users :
                  users[u].email = reqs[r].body.email /\ ~users[u].isActive )
           => /\ reqs'[r].pc = "done"
              /\ reqs'[r].res.code = HTTP_STATUS.FORBIDDEN
        /\ ( /\ reqs[r].op = "refresh"
             /\ reqs[r].pc = "findUser"
             /\ reqs'[r] # reqs[r]
             /\ reqs[r].body.refreshToken.sub \in DOMAIN users
             /\ ~users[reqs[r].body.refreshToken.sub].isActive )
           => /\ reqs'[r].pc = "done"
              /\ reqs'[r].res.code = HTTP_STATUS.UNAUTHORIZED
        /\ ( /\ InFlight(r)
             /\ reqs[r].op # "logout"
             /\ reqs'[r].pc = "done"
             /\ reqs'[r].res.code \in { HTTP_STATUS.OK, HTTP_STATUS.CREATED } )
           => LET u == IF reqs[r].op = "refresh" THEN reqs[r].body.refreshToken.sub
                                                 ELSE reqs[r].user
              IN u \in DOMAIN users /\ users[u].isActive ]_vars

\* user1 has been deactivated and a request that carried user1's unexpired
\* access token has been answered 403
C24_Witness ==
  \E r \in Slots :
    /\ reqs[r].pc = "done"
    /\ reqs[r].authorization = AccessToken("user1")
    /\ ~users["user1"].isActive
    /\ reqs[r].res.code = HTTP_STATUS.FORBIDDEN
    /\ reqs[r].res.message = "Account is inactive"

\* C25: under any interleaving of register and updateUser requests no two users
\* have the same email; a register that finds its email taken, when it looks
\* the email up or when it saves, and an updateUser that saves an email taken by
\* another user are answered 409 and leave the users as they are.
C25_EmailsUnique ==
  [][ /\ \A u, v \in DOMAIN users' : u # v => users'[u].email # users'[v].email
      /\ \A r \in Slots :
           /\ ( /\ reqs[r].op = "register"
                /\ reqs[r].pc \in { "ctrl", "save" }
                /\ reqs'[r] # reqs[r]
                /\ \E u \in DOMAIN users : users[u].email = reqs[r].body.email )
              => /\ reqs'[r].pc = "done"
                 /\ reqs'[r].res.code = HTTP_STATUS.CONFLICT
                 /\ users' = users
           /\ ( /\ reqs[r].op = "updateUser"
                /\ reqs[r].pc = "save"
                /\ reqs'[r] # reqs[r]
                /\ reqs[r].body.email # Null
                /\ \E u \in DOMAIN users \ { reqs[r].id } : users[u].email = reqs[r].body.email )
              => /\ reqs'[r].pc = "done"
                 /\ reqs'[r].res.code = HTTP_STATUS.CONFLICT
                 /\ users' = users ]_vars

\* a registration has passed its lookup, another request has taken the email in
\* the meantime, and the registration's save has been answered 409
C25_Witness ==
  \E r \in Slots :
    /\ reqs[r].op = "register"
    /\ reqs[r].pc = "done"
    /\ reqs[r].res.code = HTTP_STATUS.CONFLICT
    /\ reqs[r].res.message = "email already exists"
    /\ \E u \in UserIds : users[u].email = "jane.smith@example.com"

\* C26: createRole with a name no role has adds a role with that name and the
\* permissions of the request and is answered 201; createRole with a name in
\* use is answered 409 and adds nothing.
C26_CreateCustomRole ==
  [][ \A r \in Slots :
        ( reqs[r].op = "createRole" /\ reqs[r].pc \in { "ctrl", "save" } /\ reqs'[r] # reqs[r] )
        => LET name == Lower(reqs[r].body.name) IN
             /\ NameTaken(name)
                => /\ reqs'[r].pc = "done"
                   /\ reqs'[r].res.code = HTTP_STATUS.CONFLICT
                   /\ roles' = roles
             /\ ( ~NameTaken(name) /\ reqs[r].pc = "ctrl" ) => reqs'[r].pc = "save"
             /\ ( ~NameTaken(name) /\ reqs[r].pc = "save" )
                => /\ reqs'[r].pc = "done"
                   /\ reqs'[r].res.code = HTTP_STATUS.CREATED
                   /\ \E x \in DOMAIN roles' \ DOMAIN roles :
                        /\ DOMAIN roles' = DOMAIN roles \cup { x }
                        /\ roles'[x].name = name
                        /\ roles'[x].permissions = reqs[r].body.permissions ]_vars

\* the messages of the refusals by a permission or ownership check
AuthorizationMessages ==
  { GateMessage,
    "You do not have permission to access this resource",
    "You do not have permission to view this payment",
    "You do not have permission to view this user",
    "You do not have permission to update this user" }

\* C27 as stated: every 403 answer of a permission or ownership check carries
\* the permissions that were required (all of them, or those the caller lacks)
\* and the permissions the caller held.
C27_ForbiddenCarriesPermissions ==
  \A r \in Slots :
    ( /\ reqs[r].pc = "done"
      /\ reqs[r].res.code = HTTP_STATUS.FORBIDDEN
      /\ reqs[r].res.message \in AuthorizationMessages )
    => /\ Len(reqs[r].res.errors) = 1
       /\ "userPermissions" \in DOMAIN reqs[r].res.errors[1]
       /\ DOMAIN reqs[r].res.errors[1] \cap { "required", "missing" } # {}
       /\ reqs[r].res.errors[1].userPermissions = reqs[r].permissions

\* C27 (amended): a 403 answer of requirePermissions carries the permissions
\* that were required and those the caller held; one of requireAllPermissions
\* carries the required permissions the caller lacks and those the caller held;
\* one of requireOwnershipOrPermission or of an ownership check inside a
\* controller carries no details.
C27_OnlyGatesCarryPermissions ==
  \A r \in Slots :
    ( /\ reqs[r].pc = "done"
      /\ reqs[r].res.code = HTTP_STATUS.FORBIDDEN
      /\ reqs[r].res.message \in AuthorizationMessages )
    => CASE reqs[r].res.message # GateMessage -> reqs[r].res.errors = << >>
         [] OTHER ->
              reqs[r].res.errors =
                IF reqs[r].op = "requireAllPermissions"
                  THEN << [ missing |-> reqs[r].body.permissions \ reqs[r].permissions,
                            userPermissions |-> reqs[r].permissions ] >>
                ELSE IF reqs[r].op = "requirePermissions"
                  THEN << [ required |-> reqs[r].body.permissions,
                            userPermissions |-> reqs[r].permissions ] >>
                ELSE << [ required |-> { RequiredPermission(reqs[r].op) },
                          userPermissions |-> reqs[r].permissions ] >>

\* user1, without users:write, has asked to update the admin's record and the
\* controller's ownership check has answered 403
C27_Witness ==
  \E r \in Slots :
    /\ reqs[r].pc = "done"
    /\ reqs[r].op = "updateUser"
    /\ reqs[r].user = "user1"
    /\ reqs[r].id = "admin"
    /\ reqs[r].res.code = HTTP_STATUS.FORBIDDEN
    /\ reqs[r].res.message = "You do not have permission to update this user"

\* the tracking fields a status calls for
Decided == { PAYMENT_STATUS.APPROVED, PAYMENT_STATUS.REJECTED, PAYMENT_STATUS.PROCESSING,
             PAYMENT_STATUS.COMPLETED, PAYMENT_STATUS.FAILED }
Processed == { PAYMENT_STATUS.PROCESSING, PAYMENT_STATUS.COMPLETED, PAYMENT_STATUS.FAILED }

TrackingAgrees(p) ==
  /\ (p.status \in Decided) <=> (p.approvedBy # Null)
  /\ (p.status \in Decided) <=> (p.approvedAt # NoDate)
  /\ (p.status \in Processed) <=> (p.processedBy # Null)
  /\ (p.status \in Processed) <=> (p.processedAt # NoDate)
  /\ (p.status = PAYMENT_STATUS.COMPLETED) <=> (p.completedAt # NoDate)
  /\ (p.status \in { PAYMENT_STATUS.REJECTED, PAYMENT_STATUS.FAILED }) <=> (p.failureReason # Null)
  /\ p.status \in Decided \cup { PAYMENT_STATUS.PENDING }

\* a save of a decision or of a processing records the caller and the time
\* the controller read; every other step leaves those fields alone
TrackingRecordsCaller ==
  \A id \in DOMAIN payments \cap DOMAIN payments' :
    LET old == payments[id]
        new == payments'[id]
    IN /\ << new.approvedBy, new.approvedAt >> # << old.approvedBy, old.approvedAt >> =>
            \E r \in Slots :
              /\ reqs[r].op \in { "approvePayment", "rejectPayment" }
              /\ reqs[r].pc = "save" /\ reqs[r].id = id
              /\ new.approvedBy = reqs[r].user
              /\ new.approvedAt = now
       /\ << new.processedBy, new.processedAt >> # << old.processedBy, old.processedAt >> =>
            \E r \in Slots :
              /\ reqs[r].op = "processPayment"
              /\ reqs[r].pc = "save" /\ reqs[r].id = id
              /\ new.processedBy = reqs[r].user
              /\ new.processedAt = now

\* C28: with requests executed one at a time, every payment's tracking
\* fields agree with its status: approvedBy/approvedAt are set exactly from
\* the approve or reject on (to its caller and time), processedBy/processedAt
\* exactly from the process on (to its caller), completedAt iff completed,
\* failureReason iff rejected or failed, and a pending payment has none.
C28_TrackingFieldsAgree ==
  /\ [](\A id \in DOMAIN payments : TrackingAgrees(payments[id]))
  /\ [][TrackingRecordsCaller]_vars

C28_Witness ==
  \E id \in DOMAIN payments, other \in DOMAIN payments :
    /\ payments[id].status = PAYMENT_STATUS.FAILED
    /\ payments[id].approvedBy = "manager"
    /\ payments[id].processedBy = "admin"
    /\ payments[id].failureReason = GatewayFailureReason
    /\ payments[id].completedAt = NoDate
    /\ payments[other].status = PAYMENT_STATUS.REJECTED
    /\ payments[other].failureReason = DefaultRejectReason
    /\ payments[other].processedBy = Null

\* payments inserted by the step
Created == DOMAIN payments' \ DOMAIN payments

\* C29: every payment createPayment inserts has status pending and the
\* authenticated caller as owner, whatever the request body carries: a status
\* or a userId in the body has no effect.
C29_CreatedPendingAndOwned ==
  [][\A id \in Created :
       \E r \in Slots :
         /\ At(r, "createPayment", "ctrl")
         /\ authenticate(reqs[r].authorization).ok
         /\ payments'[id].user = reqs[r].authorization.sub
         /\ payments'[id].status = PAYMENT_STATUS.PENDING
         /\ reqs'[r].res.code = HTTP_STATUS.CREATED
         /\ reqs'[r].res.data.payment = payments'[id]]_vars

\* a payment created from a body carrying status completed and userId admin
C29_Witness ==
  \E id \in DOMAIN payments, r \in Slots :
    /\ payments[id].amount = ForgedCreateBody.amount
    /\ payments[id].status = PAYMENT_STATUS.PENDING
    /\ payments[id].user = "user1"
    /\ reqs[r].op = "createPayment"
    /\ reqs[r].res.code = HTTP_STATUS.CREATED
    /\ reqs[r].res.data.id = id

\* C30: under any interleaving of creations no two payments carry the same
\* transaction identifier, and the identifier of a payment never changes.
C30_TransactionIdUnique ==
  /\ [](\A p, q \in DOMAIN payments :
          payments[p].transactionId = payments[q].transactionId => p = q)
  /\ [][\A p \in DOMAIN payments \cap DOMAIN payments' :
           payments'[p].transactionId = payments[p].transactionId]_vars

\* a creation that drew the identifier of an existing payment was refused,
\* and an approval has been saved over a created payment
C30_Witness ==
  /\ \E r \in Slots :
       /\ reqs[r].op = "createPayment"
       /\ reqs[r].res = DuplicateKey("transactionId")
  /\ \E p \in DOMAIN payments :
       /\ payments[p].status = PAYMENT_STATUS.APPROVED
       /\ payments[p].transactionId # << >>

\* what a payment keeps from its creation
CreationFields(p) == << p.user, p.amount, p.currency, p.description, p.paymentMethod >>

\* C31: no step changes the owner, amount, currency, description or payment
\* method of an existing payment, and a step of approvePayment, rejectPayment
\* or processPayment leaves every payment but its own as it was.
C31_CreationFieldsImmutable ==
  [][/\ \A id \in DOMAIN payments \cap DOMAIN payments' :
          CreationFields(payments'[id]) = CreationFields(payments[id])
     /\ \A r \in Slots :
          (InFlight(r) /\ reqs[r].op \in TransitionOps /\ reqs'[r] # reqs[r]) =>
            \A id \in DOMAIN payments \ { reqs[r].id } :
              id \in DOMAIN payments' /\ payments'[id] = payments[id]]_vars

\* a payment processed to the end next to a rejected one, both as created
C31_Witness ==
  \E id \in DOMAIN payments, other \in DOMAIN payments :
    /\ payments[id].status = PAYMENT_STATUS.COMPLETED
    /\ payments[other].status = PAYMENT_STATUS.REJECTED
    /\ CreationFields(payments[id]) = << "user1", 9999, "USD", "Invoice 1001", "card" >>
    /\ CreationFields(payments[other]) = << "user1", 9999, "USD", "Invoice 1001", "card" >>

\* a request that the OR gate of its route has just answered
RefusedByGate(r) ==
  /\ Arrives(r)
  /\ reqs'[r].pc = "done"
  /\ reqs'[r].op \in GatedOps
  /\ reqs'[r].user # Null
  /\ reqs'[r].res.message = "You do not have permission to perform this action"

\* C32: requirePermissions lets an authenticated caller through iff the
\* caller holds at least one of the required permissions, so nobody passes an
\* empty list; otherwise it answers 403, and a request refused by the gate of
\* its route never reaches the controller and changes nothing.
C32_OrGate ==
  /\ [](\A r \in Slots : reqs[r].op = "requirePermissions" =>
          IF reqs[r].body.permissions \cap reqs[r].permissions # {}
            THEN reqs[r].res = NoRes
            ELSE reqs[r].res.code = HTTP_STATUS.FORBIDDEN)
  /\ [][\A r \in Slots :
          /\ ( /\ Arrives(r)
               /\ reqs'[r].op \in GatedOps /\ reqs'[r].user # Null )
             => ( RequiredPermission(reqs'[r].op) \notin reqs'[r].permissions <=> RefusedByGate(r) )
          /\ RefusedByGate(r) =>
               /\ reqs'[r].res.code = HTTP_STATUS.FORBIDDEN
               /\ << users, roles, payments, refreshTokens >>' = << users, roles, payments, refreshTokens >>]_vars

\* user1 is refused by a gate that requires users:read or nothing at all, and
\* admin is refused by the gate with the empty list
C32_Witness ==
  \E r \in Slots :
    /\ reqs[r].op = "requirePermissions"
    /\ reqs[r].user = "admin"
    /\ reqs[r].body.permissions = {}
    /\ reqs[r].permissions = AllPermissions
    /\ reqs[r].res.code = HTTP_STATUS.FORBIDDEN

\* C33: requireAllPermissions lets an authenticated caller through iff the
\* caller holds every required permission; otherwise it answers 403 and lists
\* exactly the required permissions the caller lacks.
C33_AndGate ==
  \A r \in Slots : reqs[r].op = "requireAllPermissions" =>
    LET required == reqs[r].body.permissions
        held == reqs[r].permissions
    IN IF \A permission \in required : permission \in held
         THEN reqs[r].res = NoRes
         ELSE /\ reqs[r].res.code = HTTP_STATUS.FORBIDDEN
              /\ Len(reqs[r].res.errors) = 1
              /\ reqs[r].res.errors[1].missing = { permission \in required : permission \notin held }

\* user1, holding payments:read, is refused by the gate that also requires users:read
C33_Witness ==
  \E r \in Slots :
    /\ reqs[r].op = "requireAllPermissions"
    /\ reqs[r].user = "user1"
    /\ reqs[r].body.permissions = { "payments:read", "users:read" }
    /\ reqs[r].res.code = HTTP_STATUS.FORBIDDEN
    /\ reqs[r].res.errors[1].missing = { "users:read" }

\* the rule: the caller owns the resource or holds the permission
isOwnerOrPermitted(resourceOwnerId, callerId, callerPermissions, requiredPermission) ==
  resourceOwnerId = callerId \/ requiredPermission \in callerPermissions

\* the controller step of a profile request is refused for want of authorization
ProfileRefused(r, message) ==
  /\ reqs'[r].pc = "done"
  /\ reqs'[r].res.code = HTTP_STATUS.FORBIDDEN
  /\ reqs'[r].res.message = message

\* C34: the ownership-or-permission gate lets the caller through iff the
\* caller owns the resource or holds the gate's permission; getUserById (with
\* users:read) and updateUser (with users:write) decide by the same rule, so
\* a user with an empty permission set reads and updates their own profile.
C34_OwnerOrPermission ==
  /\ [](\A r \in Slots : reqs[r].op = "requireOwnershipOrPermission" =>
          \A permission \in reqs[r].body.permissions :
            IF isOwnerOrPermitted(reqs[r].id, reqs[r].user, reqs[r].permissions, permission)
              THEN reqs[r].res = NoRes
              ELSE reqs[r].res.code = HTTP_STATUS.FORBIDDEN)
  /\ [][\A r \in Slots :
          /\ At(r, "getUserById", "ctrl") /\ reqs'[r] # reqs[r] =>
               /\ ProfileRefused(r, "You do not have permission to view this user")
                    <=> ~isOwnerOrPermitted(reqs[r].id, reqs[r].user, reqs[r].permissions,
                                            PERMISSIONS.USERS_READ)
               /\ reqs[r].id = reqs[r].user => reqs'[r].res.code = HTTP_STATUS.OK
          /\ At(r, "updateUser", "ctrl") /\ reqs'[r] # reqs[r] =>
               /\ ProfileRefused(r, "You do not have permission to update this user")
                    <=> ~isOwnerOrPermitted(reqs[r].id, reqs[r].user, reqs[r].permissions,
                                            PERMISSIONS.USERS_WRITE)
               /\ (reqs[r].id = reqs[r].user /\ "isActive" \notin reqs[r].body.fields)
                    => reqs'[r].pc = "save"]_vars

\* user1, whose role has been emptied, has read their own profile
C34_Witness ==
  \E r \in Slots :
    /\ reqs[r].op = "getUserById"
    /\ reqs[r].user = "user1"
    /\ reqs[r].id = "user1"
    /\ reqs[r].permissions = {}
    /\ reqs[r].res.code = HTTP_STATUS.OK
    /\ reqs[r].res.data.user.email = users["user1"].email

ProcessSuccesses(id) ==
  { r \in Slots : /\ reqs[r].op = "processPayment" /\ reqs[r].id = id
                  /\ reqs[r].pc = "done" /\ reqs[r].res.code = HTTP_STATUS.OK }

\* C36: under any interleaving of process requests on one approved payment at
\* most one request reports success, the outcome is drawn at most once (no
\* request draws it for a payment already marked processing or beyond), and
\* the record names the processor of the request that succeeded.
C36_ProcessedAtMostOnce ==
  /\ [](\A id \in PaymentIds :
          /\ Cardinality(ProcessSuccesses(id)) <= 1
          /\ \A r \in ProcessSuccesses(id) :
               id \in DOMAIN payments => payments[id].processedBy = reqs[r].user)
  /\ [][\A r \in Slots :
          (At(r, "processPayment", "save") /\ reqs'[r].pc = "save2") =>
            payments[reqs[r].id].status = PAYMENT_STATUS.APPROVED]_vars

\* a bearer value that does not authenticate: missing, not an access token,
\* expired, or of a user who does not exist or is inactive
Unauthenticated(tok) ==
  \/ tok.kind # "access"
  \/ tok.expired
  \/ tok.sub \notin DOMAIN users
  \/ ~users[tok.sub].isActive

AuthenticatedOps ==
  GatedOps \cup { "getAllPayments", "getPaymentById", "getUserById", "updateUser" }

\* C37: a request on a payment, user or role route whose bearer value does not
\* authenticate is answered by authenticate (401, or 403 for an inactive
\* account) on arrival, never reaches a gate, validator or controller, and
\* changes no user, role, payment or refresh record; every change of those is
\* made by a step of an authenticated request.
C37_NothingRunsUnauthenticated ==
  [][/\ \A r \in Slots :
          (Arrives(r) /\ reqs'[r].op \in AuthenticatedOps /\ Unauthenticated(reqs'[r].authorization)) =>
            /\ reqs'[r].pc = "done"
            /\ reqs'[r].user = Null
            /\ reqs'[r].res.code \in { HTTP_STATUS.UNAUTHORIZED, HTTP_STATUS.FORBIDDEN }
            /\ reqs'[r].res.message \in { "Access token is required", "Invalid token", "Token expired",
                                          "User not found", "Account is inactive" }
            /\ << users, roles, payments, refreshTokens >>' = << users, roles, payments, refreshTokens >>
     /\ << users, roles, payments, refreshTokens >>' # << users, roles, payments, refreshTokens >> =>
          \E r \in Slots :
            /\ InFlight(r) /\ reqs'[r] # reqs[r]
            /\ reqs[r].user # Null
            /\ ~Unauthenticated(reqs[r].authorization)]_vars

\* user1, deactivated by admin, is refused an update of their own profile
C37_Witness ==
  \E r \in Slots :
    /\ reqs[r].op = "updateUser"
    /\ reqs[r].authorization = AccessToken("user1")
    /\ reqs[r].id = "user1"
    /\ reqs[r].res.message = "Account is inactive"
    /\ ~users["user1"].isActive
    /\ users["user1"].email = "user@example.com"

\* C38: once a user is deleted, a request with the access token issued to
\* them is answered 401 on arrival, no refresh with a refresh token issued to
\* them succeeds (401), and the deletion leaves their refresh records stored.
C38_DeletedUserLockedOut ==
  [][/\ \A r \in Slots :
          /\ ( /\ Arrives(r) /\ reqs'[r].op \in AuthenticatedOps
               /\ reqs'[r].authorization.kind = "access"
               /\ reqs'[r].authorization.sub \notin DOMAIN users )
             => /\ reqs'[r].pc = "done"
                /\ reqs'[r].res.code = HTTP_STATUS.UNAUTHORIZED
          /\ ( /\ InFlight(r) /\ reqs[r].op = "refresh" /\ reqs'[r].pc = "done"
               /\ reqs[r].body.refreshToken.sub \notin DOMAIN users )
             => reqs'[r].res.code = HTTP_STATUS.UNAUTHORIZED
     /\ DOMAIN users' # DOMAIN users => refreshTokens' = refreshTokens]_vars

\* user1 is deleted, their refresh record is still stored, and their refresh
\* has been refused at the user lookup
C38_Witness ==
  /\ "user1" \notin DOMAIN users
  /\ \E t \in refreshTokens : t.user = "user1" /\ ~isExpired(t)
  /\ \E r \in Slots :
       /\ reqs[r].op = "refresh"
       /\ reqs[r].res.code = HTTP_STATUS.UNAUTHORIZED
       /\ reqs[r].res.message = "User not found or inactive"

\* the accounts a login body opens: known email, active, matching password
Accounts(body) ==
  { u \in DOMAIN users : /\ users[u].email = body.email
                         /\ users[u].isActive
                         /\ users[u].password = body.password }

\* C39: a login with an unknown email, an inactive account or a wrong
\* password is answered 401 or 403 and changes no persisted state; a login
\* that succeeds has set the user's lastLogin and adds exactly one refresh
\* record, owned by that user.
C39_LoginEffects ==
  [][\A r \in Slots :
       /\ (At(r, "login", "ctrl") /\ reqs'[r] # reqs[r] /\ Accounts(reqs[r].body) = {}) =>
            /\ reqs'[r].pc = "done"
            /\ reqs'[r].res.code \in { HTTP_STATUS.UNAUTHORIZED, HTTP_STATUS.FORBIDDEN }
            /\ << users, roles, payments, refreshTokens >>' = << users, roles, payments, refreshTokens >>
       /\ (At(r, "login", "ctrl") /\ reqs'[r] # reqs[r] /\ Accounts(reqs[r].body) # {}) =>
            /\ InFlight(r)'
            /\ reqs'[r].user \in Accounts(reqs[r].body)
       /\ (At(r, "login", "save") /\ reqs'[r].pc = "token") =>
            /\ users' = [ users EXCEPT ![reqs[r].user].lastLogin = now ]
            /\ refreshTokens' = refreshTokens
       /\ ( /\ reqs[r].op = "login" /\ InFlight(r) /\ reqs'[r].pc = "done"
            /\ reqs'[r].res.code = HTTP_STATUS.OK ) =>
            /\ users[reqs[r].user].lastLogin # NoDate
            /\ users' = users
            /\ refreshTokens \subseteq refreshTokens'
            /\ \E t \in refreshTokens' \ refreshTokens :
                 /\ refreshTokens' \ refreshTokens = { t }
                 /\ t.user = reqs[r].user]_vars

\* after a login of user1 that succeeded, a login with a wrong password has
\* been refused and the one refresh record and lastLogin are as they were
C39_Witness ==
  /\ users["user1"].lastLogin # NoDate
  /\ users["user1"].lastLogin < now
  /\ Cardinality(refreshTokens) = 1
  /\ \E r \in Slots :
       /\ reqs[r].op = "login"
       /\ reqs[r].res.code = HTTP_STATUS.UNAUTHORIZED
       /\ reqs[r].res.message = "Invalid email or password"

====
